---- MODULE Spec2Model ----
(***************************************************************************)
(* A model of the datapath simulator (src/02_数据通路与控制/               *)
(* datapath_simulator): the functional units, the single-cycle and         *)
(* multi-cycle control units, the datapath phases and the command-line     *)
(* driver that wires them together.                                        *)
(*                                                                         *)
(* Python integers are unbounded, TLC's are 32-bit signed.  A Python       *)
(* integer v is therefore held as the record [ext, hi, lo] with            *)
(*     v = ext * 2^32 + hi * 2^16 + lo,   0 <= hi, lo < 2^16,              *)
(* ext being the (signed) part of v above bit 31.  Every arithmetic and    *)
(* bitwise operator of the source is computed on this form, so that a      *)
(* truncation `& 0xFFFFFFFF` really drops something.                       *)
(***************************************************************************)
EXTENDS Integers, Sequences, FiniteSets, TLC

VARIABLES
    mode,       \* DatapathSimulator.mode: "single" | "multi" | "none"
    cu,         \* DatapathSimulator.control_unit
    dp,         \* DatapathSimulator.datapath
    history,    \* DatapathSimulator.instruction_history (its length); on a
                \* datapath without a simulator, the operations applied to it
    trace,      \* the FSM states since the current instruction was decoded
    unit,       \* a functional unit on its own (a Register)
    call        \* the operation invoked last, its arguments and its outcome

vars == <<mode, cu, dp, history, trace, unit, call>>

(***************************************************************************)
(* Python integers                                                         *)
(***************************************************************************)
H == 2 ^ 16

PyInt(e, h, l) == [ext |-> e, hi |-> h, lo |-> l]
Word(h, l) == PyInt(0, h, l)
Small(n) == PyInt(0, n \div H, n % H)  \* 0 <= n < 2^31
Zero == Word(0, 0)
\* the integer value of a PyInt below 2^31
ToNat(v) == v.hi * H + v.lo

\* a + b
Add(a, b) ==
    LET l == a.lo + b.lo
        h == a.hi + b.hi + (l \div H)
    IN PyInt(a.ext + b.ext + (h \div H), h % H, l % H)

\* a - b
Sub(a, b) ==
    LET l == a.lo - b.lo
        h == a.hi - b.hi + (l \div H)
    IN PyInt(a.ext - b.ext + (h \div H), h % H, l % H)

\* x & y, x | y, x ^ y on machine integers; y >= 0 (x may be negative in AndN)
RECURSIVE AndN(_, _)
AndN(x, y) ==
    IF x = 0 \/ y = 0 THEN 0
    ELSE ((x % 2) * (y % 2)) + 2 * AndN(x \div 2, y \div 2)

RECURSIVE OrN(_, _)
OrN(x, y) ==
    IF x = 0 THEN y
    ELSE IF y = 0 THEN x
    ELSE (IF x % 2 = 1 \/ y % 2 = 1 THEN 1 ELSE 0) + 2 * OrN(x \div 2, y \div 2)

RECURSIVE XorN(_, _)
XorN(x, y) ==
    IF x = 0 THEN y
    ELSE IF y = 0 THEN x
    ELSE (((x % 2) + (y % 2)) % 2) + 2 * XorN(x \div 2, y \div 2)

\* a & b (b >= 0), a | b, a ^ b
BitAnd(a, b) == PyInt(AndN(a.ext, b.ext), AndN(a.hi, b.hi), AndN(a.lo, b.lo))
BitOr(a, b) == PyInt(OrN(a.ext, b.ext), OrN(a.hi, b.hi), OrN(a.lo, b.lo))
BitXor(a, b) == PyInt(XorN(a.ext, b.ext), XorN(a.hi, b.hi), XorN(a.lo, b.lo))

\* a << n, 0 <= n <= 32, a >= 0
RECURSIVE Shl(_, _)
Shl(a, n) ==
    IF n >= 16 THEN Shl(PyInt(a.ext * H + a.hi, a.lo, 0), n - 16)
    ELSE LET p == 2 ^ n
             l == a.lo * p
             h == a.hi * p + (l \div H)
         IN PyInt(a.ext * p + (h \div H), h % H, l % H)

\* a >> n, 0 <= n <= 32, a >= 0
RECURSIVE Shr(_, _)
Shr(a, n) ==
    IF n >= 16 THEN Shr(PyInt(a.ext \div H, a.ext % H, a.hi), n - 16)
    ELSE LET p == 2 ^ n
             q == 2 ^ (16 - n)
         IN PyInt(a.ext \div p,
                  (a.hi \div p) + (a.ext % p) * q,
                  (a.lo \div p) + (a.hi % p) * q)

\* (a << n) & 0xFFFFFFFF, 0 <= n <= 32, a >= 0: the bits a << n has above bit 31
\* are dropped by the mask and need not be computed
RECURSIVE Shl32(_, _)
Shl32(a, n) ==
    IF n >= 16 THEN Shl32(Word(a.lo, 0), n - 16)
    ELSE LET p == 2 ^ n
             l == a.lo * p
             h == a.hi * p + (l \div H)
         IN Word(h % H, l % H)

\* a < b
Less(a, b) ==
    \/ a.ext < b.ext
    \/ a.ext = b.ext /\ a.hi < b.hi
    \/ a.ext = b.ext /\ a.hi = b.hi /\ a.lo < b.lo

\* the literals of the source
xFFFFFFFF == Word(65535, 65535)
x80000000 == Word(32768, 0)
x7FFFFFFF == Word(32767, 65535)
xFFFF0000 == Word(65535, 0)
xF0000000 == Word(61440, 0)
x3FFFFFF == Word(1023, 65535)
xFFFF == Word(0, 65535)
x8000 == Word(0, 32768)
x3F == Word(0, 63)
x1F == Word(0, 31)

\* F(v), with v computed once (a local assignment of the source)
Bind(v, F(_)) == CHOOSE y \in {F(x) : x \in {v}} : TRUE

(***************************************************************************)
(* control_signals.py: ControlSignals                                      *)
(***************************************************************************)
\* ControlSignals.__init__ / ControlSignals.reset
ControlSignals ==
    [pc_write |-> FALSE, pc_source |-> 0,
     mem_read |-> FALSE, mem_write |-> FALSE,
     reg_write |-> FALSE, reg_dst |-> 0,
     alu_src_a |-> 0, alu_src_b |-> 0, alu_op |-> 0,
     mem_to_reg |-> 0,
     ir_write |-> FALSE]

(***************************************************************************)
(* control_signals.py: ControlUnit                                         *)
(***************************************************************************)
\* ControlUnit.__init__, MultiCycleControlUnit.__init__
ControlUnit ==
    [signals |-> ControlSignals, current_instruction |-> Zero,
     opcode |-> 0, funct |-> 0, state |-> "none", next_state |-> "none"]

MultiCycleControlUnit ==
    [ControlUnit EXCEPT !.state = "FETCH", !.next_state = "FETCH"]

\* ControlUnit.decode_instruction(instruction)
CU_decode_instruction(c, instruction) ==
    [c EXCEPT !.current_instruction = instruction,
              !.opcode = ToNat(BitAnd(Shr(instruction, 26), x3F)),
              !.funct = ToNat(BitAnd(instruction, x3F))]

\* a classification without the HALT opcode
get_instruction_type_no_halt(c) ==
    IF c.opcode = 0 THEN "R_TYPE"
    ELSE IF c.opcode = 35 THEN "LOAD"
    ELSE IF c.opcode = 43 THEN "STORE"
    ELSE IF c.opcode \in {4, 5} THEN "BRANCH"
    ELSE IF c.opcode \in {2, 3} THEN "JUMP"
    ELSE "I_TYPE"

\* ControlUnit.get_instruction_type
get_instruction_type(c) ==
    IF c.opcode = 0 THEN "R_TYPE"
    ELSE IF c.opcode = 35 THEN "LOAD"
    ELSE IF c.opcode = 43 THEN "STORE"
    ELSE IF c.opcode \in {4, 5} THEN "BRANCH"
    ELSE IF c.opcode \in {2, 3} THEN "JUMP"
    ELSE IF c.opcode = 63 THEN "HALT"
    ELSE "I_TYPE"

\* the funct -> alu_op chain of the R-type branch; s.alu_op is kept when no
\* funct matches
RTypeAluOp(funct, s) ==
    IF funct = 32 THEN 0
    ELSE IF funct = 34 THEN 1
    ELSE IF funct = 36 THEN 2
    ELSE IF funct = 37 THEN 3
    ELSE IF funct = 38 THEN 4
    ELSE IF funct = 0 THEN 5
    ELSE IF funct = 2 THEN 6
    ELSE IF funct = 3 THEN 7
    ELSE IF funct = 42 THEN 8
    ELSE s.alu_op

\* the opcode -> alu_op chain of the I-type branch
ITypeAluOp(opcode, s) ==
    IF opcode = 8 THEN 0
    ELSE IF opcode = 12 THEN 2
    ELSE IF opcode = 13 THEN 3
    ELSE IF opcode = 14 THEN 4
    ELSE IF opcode = 10 THEN 8
    ELSE s.alu_op

\* the branch-taken test both control units write:
\* (opcode == 0x04 and signals.alu_op == 0) or (opcode == 0x05 and signals.alu_op != 0)
BranchCondition(opcode, s) ==
    (opcode = 4 /\ s.alu_op = 0) \/ (opcode = 5 /\ s.alu_op # 0)

\* ControlUnit.generate_control_signals: the new value of self.signals
CU_signals(c) ==
    LET s0 == ControlSignals
        t == get_instruction_type(c)
    IN  IF t = "R_TYPE" THEN
            [s0 EXCEPT !.reg_dst = 1, !.reg_write = TRUE,
                       !.alu_src_a = 0, !.alu_src_b = 0,
                       !.alu_op = RTypeAluOp(c.funct, s0),
                       !.pc_write = TRUE, !.pc_source = 0]
        ELSE IF t = "I_TYPE" THEN
            [s0 EXCEPT !.reg_dst = 0, !.reg_write = TRUE,
                       !.alu_src_a = 0, !.alu_src_b = 1,
                       !.alu_op = ITypeAluOp(c.opcode, s0),
                       !.pc_write = TRUE, !.pc_source = 0]
        ELSE IF t = "LOAD" THEN
            [s0 EXCEPT !.mem_read = TRUE, !.reg_dst = 0, !.reg_write = TRUE,
                       !.alu_src_a = 0, !.alu_src_b = 1, !.alu_op = 0,
                       !.mem_to_reg = 1,
                       !.pc_write = TRUE, !.pc_source = 0]
        ELSE IF t = "STORE" THEN
            [s0 EXCEPT !.mem_write = TRUE,
                       !.alu_src_a = 0, !.alu_src_b = 1, !.alu_op = 0,
                       !.pc_write = TRUE, !.pc_source = 0]
        ELSE IF t = "BRANCH" THEN
            LET s1 == [s0 EXCEPT !.alu_src_a = 0, !.alu_src_b = 0, !.alu_op = 1]
            IN  IF BranchCondition(c.opcode, s1)
                THEN [s1 EXCEPT !.pc_write = TRUE, !.pc_source = 1]
                ELSE [s1 EXCEPT !.pc_write = TRUE, !.pc_source = 0]
        ELSE IF t = "JUMP" THEN
            LET s1 == IF c.opcode = 3
                      THEN [s0 EXCEPT !.reg_write = TRUE, !.reg_dst = 2,
                                      !.alu_src_a = 1, !.alu_src_b = 2,
                                      !.alu_op = 0]
                      ELSE s0
            IN  [s1 EXCEPT !.pc_write = TRUE, !.pc_source = 2]
        ELSE \* HALT
            [s0 EXCEPT !.pc_write = FALSE]

CU_generate_control_signals(c) == [c EXCEPT !.signals = CU_signals(c)]

(***************************************************************************)
(* control_signals.py: MultiCycleControlUnit                               *)
(***************************************************************************)
States == {"FETCH", "DECODE", "EXECUTE", "MEMORY", "WRITEBACK"}

\* a transition function that sends every instruction from MEMORY to WRITEBACK
next_state_of_memory_to_writeback(c) ==
    LET t == get_instruction_type(c)
    IN  IF c.state = "FETCH" THEN "DECODE"
        ELSE IF c.state = "DECODE" THEN "EXECUTE"
        ELSE IF c.state = "EXECUTE" THEN
            IF t \in {"LOAD", "STORE"} THEN "MEMORY"
            ELSE IF t \in {"R_TYPE", "I_TYPE"} THEN "WRITEBACK"
            ELSE "FETCH"
        ELSE IF c.state = "MEMORY" THEN "WRITEBACK"
        ELSE IF c.state = "WRITEBACK" THEN "FETCH"
        ELSE c.next_state

\* MultiCycleControlUnit.compute_next_state: the new value of next_state
next_state_of(c) ==
    LET t == get_instruction_type(c)
    IN  IF c.state = "FETCH" THEN "DECODE"
        ELSE IF c.state = "DECODE" THEN "EXECUTE"
        ELSE IF c.state = "EXECUTE" THEN
            IF t \in {"LOAD", "STORE"} THEN "MEMORY"
            ELSE IF t \in {"R_TYPE", "I_TYPE"} THEN "WRITEBACK"
            ELSE "FETCH"
        ELSE IF c.state = "MEMORY" THEN
            IF t = "LOAD" THEN "WRITEBACK" ELSE "FETCH"
        ELSE IF c.state = "WRITEBACK" THEN "FETCH"
        ELSE c.next_state

compute_next_state(c) == [c EXCEPT !.next_state = next_state_of(c)]

\* MultiCycleControlUnit.update_state
update_state(c) == [c EXCEPT !.state = c.next_state]

\* a MEMORY phase that leaves the read gate open while it writes
MC_memory_signals_read_and_write(t, s0) ==
    IF t = "LOAD" THEN [s0 EXCEPT !.mem_read = TRUE]
    ELSE IF t = "STORE" THEN [s0 EXCEPT !.mem_read = TRUE, !.mem_write = TRUE]
    ELSE s0

\* a MEMORY phase that asserts nothing
MC_memory_signals_none(t, s0) == s0

\* a MEMORY vector that already writes the loaded word to the register file
MC_memory_signals_load_writes(t, s0) ==
    IF t = "LOAD" THEN [s0 EXCEPT !.mem_read = TRUE, !.reg_write = TRUE]
    ELSE IF t = "STORE" THEN [s0 EXCEPT !.mem_write = TRUE]
    ELSE s0

\* the MEMORY branch of MultiCycleControlUnit.generate_control_signals
MC_memory_signals(t, s0) ==
    IF t = "LOAD" THEN [s0 EXCEPT !.mem_read = TRUE]
    ELSE IF t = "STORE" THEN [s0 EXCEPT !.mem_write = TRUE]
    ELSE s0

\* a multi-cycle unit whose EXECUTE vector of a jal leaves the ALU sources at
\* their defaults
MC_signals_jal_without_alu(c) ==
    LET s0 == ControlSignals
        t == get_instruction_type(c)
    IN  IF c.state = "FETCH" THEN
            [s0 EXCEPT !.mem_read = TRUE, !.ir_write = TRUE,
                       !.alu_src_a = 1, !.alu_src_b = 2, !.alu_op = 0,
                       !.pc_source = 0, !.pc_write = TRUE]
        ELSE IF c.state = "DECODE" THEN s0
        ELSE IF c.state = "EXECUTE" THEN
            IF t = "R_TYPE" THEN
                [s0 EXCEPT !.alu_src_a = 0, !.alu_src_b = 0,
                           !.alu_op = RTypeAluOp(c.funct, s0)]
            ELSE IF t = "I_TYPE" THEN
                [s0 EXCEPT !.alu_src_a = 0, !.alu_src_b = 1,
                           !.alu_op = ITypeAluOp(c.opcode, s0)]
            ELSE IF t \in {"LOAD", "STORE"} THEN
                [s0 EXCEPT !.alu_src_a = 0, !.alu_src_b = 1, !.alu_op = 0]
            ELSE IF t = "BRANCH" THEN
                LET s1 == [s0 EXCEPT !.alu_src_a = 0, !.alu_src_b = 0,
                                     !.alu_op = 1, !.pc_source = 1]
                IN  IF BranchCondition(c.opcode, s1)
                    THEN [s1 EXCEPT !.pc_write = TRUE]
                    ELSE s1
            ELSE IF t = "JUMP" THEN
                LET s1 == [s0 EXCEPT !.pc_source = 2, !.pc_write = TRUE]
                IN  s1
            ELSE s0
        ELSE IF c.state = "MEMORY" THEN MC_memory_signals(t, s0)
        ELSE IF c.state = "WRITEBACK" THEN
            IF t = "R_TYPE" THEN
                [s0 EXCEPT !.reg_dst = 1, !.reg_write = TRUE, !.mem_to_reg = 0]
            ELSE IF t = "I_TYPE" THEN
                [s0 EXCEPT !.reg_dst = 0, !.reg_write = TRUE, !.mem_to_reg = 0]
            ELSE IF t = "LOAD" THEN
                [s0 EXCEPT !.reg_dst = 0, !.reg_write = TRUE, !.mem_to_reg = 1]
            ELSE IF t = "JUMP" /\ c.opcode = 3 THEN
                [s0 EXCEPT !.reg_dst = 2, !.reg_write = TRUE, !.mem_to_reg = 0]
            ELSE s0
        ELSE s0

\* MultiCycleControlUnit.generate_control_signals: the new value of self.signals
MC_signals(c) ==
    LET s0 == ControlSignals
        t == get_instruction_type(c)
    IN  IF c.state = "FETCH" THEN
            [s0 EXCEPT !.mem_read = TRUE, !.ir_write = TRUE,
                       !.alu_src_a = 1, !.alu_src_b = 2, !.alu_op = 0,
                       !.pc_source = 0, !.pc_write = TRUE]
        ELSE IF c.state = "DECODE" THEN s0
        ELSE IF c.state = "EXECUTE" THEN
            IF t = "R_TYPE" THEN
                [s0 EXCEPT !.alu_src_a = 0, !.alu_src_b = 0,
                           !.alu_op = RTypeAluOp(c.funct, s0)]
            ELSE IF t = "I_TYPE" THEN
                [s0 EXCEPT !.alu_src_a = 0, !.alu_src_b = 1,
                           !.alu_op = ITypeAluOp(c.opcode, s0)]
            ELSE IF t \in {"LOAD", "STORE"} THEN
                [s0 EXCEPT !.alu_src_a = 0, !.alu_src_b = 1, !.alu_op = 0]
            ELSE IF t = "BRANCH" THEN
                LET s1 == [s0 EXCEPT !.alu_src_a = 0, !.alu_src_b = 0,
                                     !.alu_op = 1, !.pc_source = 1]
                IN  IF BranchCondition(c.opcode, s1)
                    THEN [s1 EXCEPT !.pc_write = TRUE]
                    ELSE s1
            ELSE IF t = "JUMP" THEN
                LET s1 == [s0 EXCEPT !.pc_source = 2, !.pc_write = TRUE]
                IN  IF c.opcode = 3
                    THEN [s1 EXCEPT !.alu_src_a = 1, !.alu_src_b = 2,
                                    !.alu_op = 0]
                    ELSE s1
            ELSE s0
        ELSE IF c.state = "MEMORY" THEN MC_memory_signals(t, s0)
        ELSE IF c.state = "WRITEBACK" THEN
            IF t = "R_TYPE" THEN
                [s0 EXCEPT !.reg_dst = 1, !.reg_write = TRUE, !.mem_to_reg = 0]
            ELSE IF t = "I_TYPE" THEN
                [s0 EXCEPT !.reg_dst = 0, !.reg_write = TRUE, !.mem_to_reg = 0]
            ELSE IF t = "LOAD" THEN
                [s0 EXCEPT !.reg_dst = 0, !.reg_write = TRUE, !.mem_to_reg = 1]
            ELSE IF t = "JUMP" /\ c.opcode = 3 THEN
                [s0 EXCEPT !.reg_dst = 2, !.reg_write = TRUE, !.mem_to_reg = 0]
            ELSE s0
        ELSE s0

MC_generate_control_signals(c) == [c EXCEPT !.signals = MC_signals(c)]

\* a step that commits the next state before it generates the signals
MC_step_update_first(c) ==
    Bind(compute_next_state(c), LAMBDA c1 :
    Bind(update_state(c1), LAMBDA c2 :
    MC_generate_control_signals(c2)))

\* MultiCycleControlUnit.step: the unit after the call (step returns its state)
MC_step(c) ==
    Bind(MC_generate_control_signals(c), LAMBDA c1 :
    Bind(compute_next_state(c1), LAMBDA c2 :
    update_state(c2)))

(***************************************************************************)
(* Outcomes.  A method of the source either returns or raises; R(o, e, v)  *)
(* is the object o as the call left it, the exception e raised ("none"     *)
(* when the call returned) and the value v returned.                       *)
(***************************************************************************)
None == "None"
R(o, e, v) == [obj |-> o, err |-> e, ret |-> v]
Ok(o, v) == R(o, "none", v)
Raise(o, e) == R(o, e, None)
\* r, then F on the object r left, unless r raised
Then(r, F(_)) == Bind(r, LAMBDA x : IF x.err # "none" THEN x ELSE F(x.obj))

(***************************************************************************)
(* functional_units.py: Register, ProgramCounter                           *)
(***************************************************************************)
\* Register.__init__(name, width, initial_value)
Register(width, initial_value) ==
    [value |-> initial_value, enable |-> FALSE, width |-> width]

\* ProgramCounter.__init__
ProgramCounter == Register(32, Zero)

\* Register.read
Reg_read(r) == r.value

\* a write that ignores the enable gate
Reg_write_ungated(r, value) ==
    [r EXCEPT !.value = BitAnd(value, Sub(Shl(Small(1), r.width), Small(1)))]

\* Register.write(value)
Reg_write(r, value) ==
    IF r.enable
    THEN LET mask == Sub(Shl(Small(1), r.width), Small(1))
         IN [r EXCEPT !.value = BitAnd(value, mask)]
    ELSE r

\* Register.set_enable(enable)
Reg_set_enable(r, enable) == [r EXCEPT !.enable = enable]

\* a reset that honours the enable gate
Reg_reset_gated(r) == IF r.enable THEN [r EXCEPT !.value = Zero] ELSE r

\* Register.reset
Reg_reset(r) == [r EXCEPT !.value = Zero]

\* set_enable(True); write(value); set_enable(False), as every caller does
Reg_latch(r, value) ==
    Reg_set_enable(Reg_write(Reg_set_enable(r, TRUE), value), FALSE)

(***************************************************************************)
(* functional_units.py: RegisterFile                                       *)
(***************************************************************************)
NumRegisters == 32

\* RegisterFile.__init__
RegisterFile ==
    [registers |-> [i \in 0 .. NumRegisters - 1 |-> Register(32, Zero)],
     write_enable |-> FALSE, write_register |-> 0]

\* RegisterFile.read(register_num)
RF_read(rf, register_num) ==
    IF 0 <= register_num /\ register_num < NumRegisters
    THEN Ok(rf, Reg_read(rf.registers[register_num]))
    ELSE Raise(rf, "ValueError")

\* a write without the register_num > 0 guard
RF_write_no_r0_guard(rf, register_num, value) ==
    IF rf.write_enable
    THEN IF 0 <= register_num /\ register_num < NumRegisters
         THEN [rf EXCEPT !.registers[register_num] = Reg_latch(@, value)]
         ELSE rf
    ELSE rf

\* RegisterFile.write(register_num, value)
RF_write(rf, register_num, value) ==
    IF rf.write_enable /\ register_num > 0
    THEN IF 0 <= register_num /\ register_num < NumRegisters
         THEN [rf EXCEPT !.registers[register_num] = Reg_latch(@, value)]
         ELSE rf
    ELSE rf

\* RegisterFile.set_write_enable(enable)
RF_set_write_enable(rf, enable) == [rf EXCEPT !.write_enable = enable]

\* RegisterFile.reset
RF_reset(rf) ==
    [rf EXCEPT !.registers = [i \in 0 .. NumRegisters - 1 |-> Reg_reset(rf.registers[i])]]

(***************************************************************************)
(* functional_units.py: ALU                                                *)
(***************************************************************************)
\* ALU.__init__
ALU ==
    [input_a |-> Zero, input_b |-> Zero, operation |-> 0, result |-> Zero,
     zero |-> FALSE, negative |-> FALSE, overflow |-> FALSE]

\* ALU.set_inputs(a, b), ALU.set_operation(operation)
ALU_set_inputs(alu, a, b) == [alu EXCEPT !.input_a = a, !.input_b = b]
ALU_set_operation(alu, operation) == [alu EXCEPT !.operation = operation]

\* an ALU whose SRA shifts zeros in, as SRL does
ALU_result_sra_logical(op, a, b) ==
    IF op = 0 THEN BitAnd(Add(a, b), xFFFFFFFF)
    ELSE IF op = 1 THEN BitAnd(Sub(a, b), xFFFFFFFF)
    ELSE IF op = 2 THEN BitAnd(a, b)
    ELSE IF op = 3 THEN BitOr(a, b)
    ELSE IF op = 4 THEN BitXor(a, b)
    ELSE IF op = 5 THEN Shl32(a, ToNat(BitAnd(b, x1F)))
    ELSE IF op = 6 THEN BitAnd(Shr(a, ToNat(BitAnd(b, x1F))), xFFFFFFFF)
    ELSE IF op = 7 THEN
        LET shift == ToNat(BitAnd(b, x1F))
        IN  BitAnd(Shr(a, shift), xFFFFFFFF)
    ELSE \* 8: SLT
        IF BitAnd(BitXor(a, b), x80000000) # Zero
        THEN (IF BitAnd(a, x80000000) # Zero THEN Small(1) ELSE Zero)
        ELSE (IF Less(BitAnd(a, x7FFFFFFF), BitAnd(b, x7FFFFFFF))
              THEN Small(1) ELSE Zero)

\* the result ALU.execute computes for operation op in 0..8
ALU_result(op, a, b) ==
    IF op = 0 THEN BitAnd(Add(a, b), xFFFFFFFF)
    ELSE IF op = 1 THEN BitAnd(Sub(a, b), xFFFFFFFF)
    ELSE IF op = 2 THEN BitAnd(a, b)
    ELSE IF op = 3 THEN BitOr(a, b)
    ELSE IF op = 4 THEN BitXor(a, b)
    ELSE IF op = 5 THEN Shl32(a, ToNat(BitAnd(b, x1F)))
    ELSE IF op = 6 THEN BitAnd(Shr(a, ToNat(BitAnd(b, x1F))), xFFFFFFFF)
    ELSE IF op = 7 THEN
        LET shift == ToNat(BitAnd(b, x1F))
        IN  IF BitAnd(a, x80000000) # Zero
            THEN LET mask == Shl32(xFFFFFFFF, 32 - shift)
                 IN BitAnd(BitOr(Shr(a, shift), mask), xFFFFFFFF)
            ELSE BitAnd(Shr(a, shift), xFFFFFFFF)
    ELSE \* 8: SLT
        IF BitAnd(BitXor(a, b), x80000000) # Zero
        THEN (IF BitAnd(a, x80000000) # Zero THEN Small(1) ELSE Zero)
        ELSE (IF Less(BitAnd(a, x7FFFFFFF), BitAnd(b, x7FFFFFFF))
              THEN Small(1) ELSE Zero)

\* an ALU whose SUB tests overflow as ADD does
ALU_execute_sub_overflow_as_add(alu) ==
    IF alu.operation \notin 0 .. 8 THEN Raise(alu, "ValueError")
    ELSE
        LET a == alu.input_a
            b == alu.input_b
            res == ALU_result(alu.operation, a, b)
            sa == BitAnd(a, x80000000)
            sb == BitAnd(b, x80000000)
            sr == BitAnd(res, x80000000)
            ovf == IF alu.operation \in {0, 1} THEN (sa = sb) /\ (sr # sa)
                   ELSE FALSE
        IN Ok([alu EXCEPT !.result = res,
                          !.zero = (res = Zero),
                          !.negative = (sr # Zero),
                          !.overflow = ovf], res)

\* an ALU that clears its result and flags before it rejects an operation
ALU_execute_invalid_clears(alu) ==
    IF alu.operation \notin 0 .. 8
    THEN Raise([alu EXCEPT !.result = Zero, !.zero = TRUE,
                           !.negative = FALSE, !.overflow = FALSE], "ValueError")
    ELSE
        LET a == alu.input_a
            b == alu.input_b
            res == ALU_result(alu.operation, a, b)
            sa == BitAnd(a, x80000000)
            sb == BitAnd(b, x80000000)
            sr == BitAnd(res, x80000000)
            ovf == IF alu.operation = 0 THEN (sa = sb) /\ (sr # sa)
                   ELSE IF alu.operation = 1 THEN (sa # sb) /\ (sr # sa)
                   ELSE FALSE
        IN Ok([alu EXCEPT !.result = res,
                          !.zero = (res = Zero),
                          !.negative = (sr # Zero),
                          !.overflow = ovf], res)

\* ALU.execute: raises for an operation outside 0..8, else sets result and flags
ALU_execute(alu) ==
    IF alu.operation \notin 0 .. 8 THEN Raise(alu, "ValueError")
    ELSE
        LET a == alu.input_a
            b == alu.input_b
            res == ALU_result(alu.operation, a, b)
            sa == BitAnd(a, x80000000)
            sb == BitAnd(b, x80000000)
            sr == BitAnd(res, x80000000)
            ovf == IF alu.operation = 0 THEN (sa = sb) /\ (sr # sa)
                   ELSE IF alu.operation = 1 THEN (sa # sb) /\ (sr # sa)
                   ELSE FALSE
        IN Ok([alu EXCEPT !.result = res,
                          !.zero = (res = Zero),
                          !.negative = (sr # Zero),
                          !.overflow = ovf], res)

(***************************************************************************)
(* functional_units.py: Memory                                             *)
(***************************************************************************)
MemorySize == 1024

\* Memory.data is a list of `size` words.  It is held as the function from the
\* indices of its non-zero words to those words: every other word of the list
\* is 0.
Data_get(data, i) == IF i \in DOMAIN data THEN data[i] ELSE Zero
Data_put(data, i, v) ==
    [j \in (IF v = Zero THEN DOMAIN data \ {i} ELSE DOMAIN data \cup {i}) |->
        IF j = i THEN v ELSE data[j]]

\* Memory.__init__(size)
Memory ==
    [size |-> MemorySize, data |-> [i \in {} |-> Zero],
     read_enable |-> FALSE, write_enable |-> FALSE]

\* 0 <= word_address < size
InMemory(m, word_address) ==
    ~Less(word_address, Zero) /\ Less(word_address, Small(m.size))

\* Memory.read(address)
Mem_read(m, address) ==
    IF m.read_enable
    THEN LET word_address == Shr(address, 2)
         IN IF InMemory(m, word_address)
            THEN Ok(m, Data_get(m.data, ToNat(word_address)))
            ELSE Raise(m, "ValueError")
    ELSE Ok(m, Zero)

\* Memory.write(address, value)
Mem_write(m, address, value) ==
    IF m.write_enable
    THEN LET word_address == Shr(address, 2)
         IN IF InMemory(m, word_address)
            THEN Ok([m EXCEPT !.data = Data_put(@, ToNat(word_address),
                                                BitAnd(value, xFFFFFFFF))], None)
            ELSE Raise(m, "ValueError")
    ELSE Ok(m, None)

\* Memory.set_read_enable(enable), Memory.set_write_enable(enable)
Mem_set_read_enable(m, enable) == [m EXCEPT !.read_enable = enable]
Mem_set_write_enable(m, enable) == [m EXCEPT !.write_enable = enable]

\* Memory.load_program(program, start_address): the words are stored one by one
\* until one falls outside the memory
RECURSIVE Mem_load_from(_, _, _, _)
Mem_load_from(m, program, word_address, i) ==
    IF i > Len(program) THEN Ok(m, None)
    ELSE LET wa == Add(word_address, Small(i - 1))
         IN IF InMemory(m, wa)
            THEN Mem_load_from([m EXCEPT !.data = Data_put(@, ToNat(wa),
                                                           BitAnd(program[i], xFFFFFFFF))],
                               program, word_address, i + 1)
            ELSE Raise(m, "ValueError")

Mem_load_program(m, program, start_address) ==
    Mem_load_from(m, program, Shr(start_address, 2), 1)

(***************************************************************************)
(* functional_units.py: Multiplexer                                        *)
(***************************************************************************)
\* Multiplexer.__init__(name, num_inputs)
Multiplexer(num_inputs) ==
    [inputs |-> [i \in 0 .. num_inputs - 1 |-> Zero], select |-> 0]

\* Multiplexer.set_inputs(inputs): inputs is a sequence
Mux_set_inputs(mx, inputs) ==
    IF Len(inputs) <= Cardinality(DOMAIN mx.inputs)
    THEN Ok([mx EXCEPT !.inputs = [i \in DOMAIN mx.inputs |->
                 IF i < Len(inputs) THEN inputs[i + 1] ELSE mx.inputs[i]]], None)
    ELSE Raise(mx, "ValueError")

\* a set_select that stores the index before it rejects it
Mux_set_select_stores_first(mx, select) ==
    IF 0 <= select /\ select < Cardinality(DOMAIN mx.inputs)
    THEN Ok([mx EXCEPT !.select = select], None)
    ELSE Raise([mx EXCEPT !.select = select], "ValueError")

\* Multiplexer.set_select(select)
Mux_set_select(mx, select) ==
    IF 0 <= select /\ select < Cardinality(DOMAIN mx.inputs)
    THEN Ok([mx EXCEPT !.select = select], None)
    ELSE Raise(mx, "ValueError")

\* Multiplexer.get_output
Mux_get_output(mx) == mx.inputs[mx.select]

(***************************************************************************)
(* datapath.py: Datapath                                                   *)
(***************************************************************************)
\* Datapath.__init__ (cycle_count is MultiCycleDatapath's)
Datapath ==
    [pc |-> ProgramCounter,
     register_file |-> RegisterFile,
     ir |-> Register(32, Zero),
     mdr |-> Register(32, Zero),
     alu |-> ALU,
     alu_out |-> Register(32, Zero),
     a |-> Register(32, Zero),
     b |-> Register(32, Zero),
     memory |-> Memory,
     alu_src_a_mux |-> Multiplexer(2),
     alu_src_b_mux |-> Multiplexer(3),
     reg_dst_mux |-> Multiplexer(3),
     mem_to_reg_mux |-> Multiplexer(2),
     pc_source_mux |-> Multiplexer(3),
     pc_write |-> FALSE, mem_read |-> FALSE, mem_write |-> FALSE,
     ir_write |-> FALSE, reg_write |-> FALSE,
     current_instruction |-> Zero,
     opcode |-> 0, rs |-> 0, rt |-> 0, rd |-> 0, shamt |-> 0, funct |-> 0,
     immediate |-> Zero, address |-> Zero,
     cycle_count |-> 0]

\* Datapath.set_control_signals(signals): the assignments in the source's order;
\* a set_select that raises leaves the earlier ones done
set_control_signals(d, signals) ==
    Bind([d EXCEPT !.pc_write = signals.pc_write], LAMBDA d1 :
    Bind(Mux_set_select(d1.pc_source_mux, signals.pc_source), LAMBDA m1 :
    IF m1.err # "none" THEN Raise(d1, m1.err) ELSE
    Bind([d1 EXCEPT !.pc_source_mux = m1.obj,
                    !.memory = Mem_set_write_enable(
                                   Mem_set_read_enable(@, signals.mem_read),
                                   signals.mem_write),
                    !.register_file = RF_set_write_enable(@, signals.reg_write)],
         LAMBDA d2 :
    Bind(Mux_set_select(d2.reg_dst_mux, signals.reg_dst), LAMBDA m2 :
    IF m2.err # "none" THEN Raise(d2, m2.err) ELSE
    Bind([d2 EXCEPT !.reg_dst_mux = m2.obj], LAMBDA d3 :
    Bind(Mux_set_select(d3.alu_src_a_mux, signals.alu_src_a), LAMBDA m3 :
    IF m3.err # "none" THEN Raise(d3, m3.err) ELSE
    Bind([d3 EXCEPT !.alu_src_a_mux = m3.obj], LAMBDA d4 :
    Bind(Mux_set_select(d4.alu_src_b_mux, signals.alu_src_b), LAMBDA m4 :
    IF m4.err # "none" THEN Raise(d4, m4.err) ELSE
    Bind([d4 EXCEPT !.alu_src_b_mux = m4.obj,
                    !.alu = ALU_set_operation(@, signals.alu_op)], LAMBDA d5 :
    Bind(Mux_set_select(d5.mem_to_reg_mux, signals.mem_to_reg), LAMBDA m5 :
    IF m5.err # "none" THEN Raise(d5, m5.err) ELSE
    Ok([d5 EXCEPT !.mem_to_reg_mux = m5.obj,
                  !.ir = Reg_set_enable(@, signals.ir_write)], None)))))))))))

\* a decode_instruction that zero-extends the immediate
decode_instruction_zero_extended(d) ==
    Bind(Reg_read(d.ir), LAMBDA instr :
    Ok([d EXCEPT !.current_instruction = instr,
                 !.opcode = ToNat(BitAnd(Shr(instr, 26), x3F)),
                 !.rs = ToNat(BitAnd(Shr(instr, 21), x1F)),
                 !.rt = ToNat(BitAnd(Shr(instr, 16), x1F)),
                 !.rd = ToNat(BitAnd(Shr(instr, 11), x1F)),
                 !.shamt = ToNat(BitAnd(Shr(instr, 6), x1F)),
                 !.funct = ToNat(BitAnd(instr, x3F)),
                 !.immediate = BitAnd(instr, xFFFF),
                 !.address = BitAnd(instr, x3FFFFFF)], None))

\* Datapath.decode_instruction
decode_instruction(d) ==
    Bind(Reg_read(d.ir), LAMBDA instr :
    Bind(BitAnd(instr, xFFFF), LAMBDA imm :
    Ok([d EXCEPT !.current_instruction = instr,
                 !.opcode = ToNat(BitAnd(Shr(instr, 26), x3F)),
                 !.rs = ToNat(BitAnd(Shr(instr, 21), x1F)),
                 !.rt = ToNat(BitAnd(Shr(instr, 16), x1F)),
                 !.rd = ToNat(BitAnd(Shr(instr, 11), x1F)),
                 !.shamt = ToNat(BitAnd(Shr(instr, 6), x1F)),
                 !.funct = ToNat(BitAnd(instr, x3F)),
                 !.immediate = IF BitAnd(imm, x8000) # Zero
                               THEN BitOr(imm, xFFFF0000) ELSE imm,
                 !.address = BitAnd(instr, x3FFFFFF)], None)))

\* Datapath.fetch_instruction
fetch_instruction(d) ==
    Bind([d EXCEPT !.memory = Mem_set_read_enable(@, TRUE)], LAMBDA d1 :
    Bind(Mem_read(d1.memory, Reg_read(d1.pc)), LAMBDA rd :
    IF rd.err # "none" THEN Raise(d1, rd.err) ELSE
    Bind([d1 EXCEPT !.memory = Mem_set_read_enable(@, FALSE),
                    !.ir = IF d1.ir_write THEN Reg_latch(@, rd.ret) ELSE @],
         LAMBDA d3 :
    Bind(Mux_set_inputs(d3.alu_src_a_mux, <<Zero, Reg_read(d3.pc)>>), LAMBDA ma :
    IF ma.err # "none" THEN Raise(d3, ma.err) ELSE
    Bind([d3 EXCEPT !.alu_src_a_mux = ma.obj], LAMBDA d4 :
    Bind(Mux_set_inputs(d4.alu_src_b_mux, <<Zero, Zero, Small(4)>>), LAMBDA mb :
    IF mb.err # "none" THEN Raise(d4, mb.err) ELSE
    Bind([d4 EXCEPT !.alu_src_b_mux = mb.obj,
                    !.alu = ALU_set_operation(
                                ALU_set_inputs(@, Mux_get_output(d4.alu_src_a_mux),
                                                  Mux_get_output(mb.obj)), 0)],
         LAMBDA d6 :
    Bind(ALU_execute(d6.alu), LAMBDA ex :
    IF ex.err # "none" THEN Raise(d6, ex.err) ELSE
    Ok([d6 EXCEPT !.alu = ex.obj,
                  !.pc = IF d6.pc_write THEN Reg_latch(@, ex.ret) ELSE @],
       rd.ret)))))))))

\* Datapath.read_registers
read_registers(d) ==
    Bind(RF_read(d.register_file, d.rs), LAMBDA r1 :
    IF r1.err # "none" THEN Raise(d, r1.err) ELSE
    Bind(RF_read(d.register_file, d.rt), LAMBDA r2 :
    IF r2.err # "none" THEN Raise(d, r2.err) ELSE
    Ok([d EXCEPT !.a = Reg_latch(@, r1.ret), !.b = Reg_latch(@, r2.ret)], None)))

\* Datapath.execute
execute(d) ==
    Bind(IF Mux_get_output(d.alu_src_a_mux) = Zero
         THEN Reg_read(d.a) ELSE Reg_read(d.pc), LAMBDA alu_input_a :
    Bind(IF Mux_get_output(d.alu_src_b_mux) = Zero
         THEN Reg_read(d.b)
         ELSE IF Mux_get_output(d.alu_src_b_mux) = Small(1)
         THEN d.immediate
         ELSE Small(4), LAMBDA alu_input_b :
    Bind([d EXCEPT !.alu = ALU_set_inputs(@, alu_input_a, alu_input_b)], LAMBDA d1 :
    Bind(ALU_execute(d1.alu), LAMBDA ex :
    IF ex.err # "none" THEN Raise(d1, ex.err) ELSE
    Ok([d1 EXCEPT !.alu = ex.obj, !.alu_out = Reg_latch(@, ex.ret)], ex.ret)))))

\* a memory_access whose load returns the word without latching it into MDR
memory_access_no_mdr(d) ==
    IF d.mem_read THEN
        Bind([d EXCEPT !.memory = Mem_set_read_enable(@, TRUE)], LAMBDA d1 :
        Bind(Mem_read(d1.memory, Reg_read(d1.alu_out)), LAMBDA rd :
        IF rd.err # "none" THEN Raise(d1, rd.err) ELSE
        Ok([d1 EXCEPT !.memory = Mem_set_read_enable(@, FALSE)], rd.ret)))
    ELSE IF d.mem_write THEN
        Bind([d EXCEPT !.memory = Mem_set_write_enable(@, TRUE)], LAMBDA d1 :
        Bind(Mem_write(d1.memory, Reg_read(d1.alu_out), Reg_read(d1.b)), LAMBDA wr :
        IF wr.err # "none" THEN Raise(d1, wr.err) ELSE
        Ok([d1 EXCEPT !.memory = Mem_set_write_enable(wr.obj, FALSE)], None)))
    ELSE Ok(d, None)

\* Datapath.memory_access
memory_access(d) ==
    IF d.mem_read THEN
        Bind([d EXCEPT !.memory = Mem_set_read_enable(@, TRUE)], LAMBDA d1 :
        Bind(Mem_read(d1.memory, Reg_read(d1.alu_out)), LAMBDA rd :
        IF rd.err # "none" THEN Raise(d1, rd.err) ELSE
        Ok([d1 EXCEPT !.memory = Mem_set_read_enable(@, FALSE),
                      !.mdr = Reg_latch(@, rd.ret)], rd.ret)))
    ELSE IF d.mem_write THEN
        Bind([d EXCEPT !.memory = Mem_set_write_enable(@, TRUE)], LAMBDA d1 :
        Bind(Mem_write(d1.memory, Reg_read(d1.alu_out), Reg_read(d1.b)), LAMBDA wr :
        IF wr.err # "none" THEN Raise(d1, wr.err) ELSE
        Ok([d1 EXCEPT !.memory = Mem_set_write_enable(wr.obj, FALSE)], None)))
    ELSE Ok(d, None)

\* Datapath.write_back
write_back(d) ==
    IF d.reg_write THEN
        Bind(IF Mux_get_output(d.reg_dst_mux) = Zero THEN d.rt
             ELSE IF Mux_get_output(d.reg_dst_mux) = Small(1) THEN d.rd
             ELSE 31, LAMBDA reg_num :
        Bind(IF Mux_get_output(d.mem_to_reg_mux) = Zero
             THEN Reg_read(d.alu_out) ELSE Reg_read(d.mdr), LAMBDA data :
        Ok([d EXCEPT !.register_file =
                RF_set_write_enable(
                    RF_write(RF_set_write_enable(@, TRUE), reg_num, data),
                    FALSE)], None)))
    ELSE Ok(d, None)

\* an update_pc that ignores pc_write and steps to the next word
update_pc_ungated(d) ==
    Ok([d EXCEPT !.pc = Reg_latch(@, Add(Reg_read(d.pc), Small(4)))], None)

\* Datapath.update_pc
update_pc(d) ==
    IF d.pc_write THEN
        Bind(IF Mux_get_output(d.pc_source_mux) = Zero
             THEN Reg_read(d.alu_out)
             ELSE IF Mux_get_output(d.pc_source_mux) = Small(1)
             THEN Add(Reg_read(d.pc), Shl(d.immediate, 2))
             ELSE BitOr(BitAnd(Reg_read(d.pc), xF0000000), Shl(d.address, 2)),
             LAMBDA next_pc :
        Ok([d EXCEPT !.pc = Reg_latch(@, next_pc)], None))
    ELSE Ok(d, None)

\* Datapath.reset
reset(d) ==
    Ok([d EXCEPT !.pc = Reg_reset(@),
                 !.register_file = RF_reset(@),
                 !.ir = Reg_reset(@),
                 !.mdr = Reg_reset(@),
                 !.alu_out = Reg_reset(@),
                 !.a = Reg_reset(@),
                 !.b = Reg_reset(@)], None)

\* Datapath.load_program(program, start_address)
load_program(d, program, start_address) ==
    Bind(Mem_load_program(d.memory, program, start_address), LAMBDA r :
    R([d EXCEPT !.memory = r.obj], r.err, None))

\* SingleCycleDatapath.execute_instruction: the phases in order, the fetched
\* word returned
execute_instruction(d) ==
    Bind(fetch_instruction(d), LAMBDA f :
    Bind(Then(Then(Then(Then(Then(Then(f,
             decode_instruction), read_registers), execute),
             memory_access), write_back), update_pc), LAMBDA rest :
    R(rest.obj, rest.err, IF rest.err = "none" THEN f.ret ELSE None)))

\* an execute_cycle whose DECODE phase fetches again before decoding
execute_cycle_decode_fetches(d, state) ==
    Bind([d EXCEPT !.cycle_count = @ + 1], LAMBDA d1 :
        IF state = "FETCH" THEN fetch_instruction(d1)
        ELSE IF state = "DECODE"
        THEN Then(Then(fetch_instruction(d1), decode_instruction), read_registers)
        ELSE IF state = "EXECUTE" THEN execute(d1)
        ELSE IF state = "MEMORY" THEN memory_access(d1)
        ELSE IF state = "WRITEBACK" THEN write_back(d1)
        ELSE Ok(d1, None))

\* MultiCycleDatapath.execute_cycle(state)
execute_cycle(d, state) ==
    Bind([d EXCEPT !.cycle_count = @ + 1], LAMBDA d1 :
        IF state = "FETCH" THEN fetch_instruction(d1)
        ELSE IF state = "DECODE" THEN Then(decode_instruction(d1), read_registers)
        ELSE IF state = "EXECUTE" THEN execute(d1)
        ELSE IF state = "MEMORY" THEN memory_access(d1)
        ELSE IF state = "WRITEBACK" THEN write_back(d1)
        ELSE Ok(d1, None))

(***************************************************************************)
(* control_signals.py: MultiCycleControlUnit.reset.  It calls               *)
(* super().reset(), which ControlUnit does not define: the call raises      *)
(* before state and next_state are assigned.                               *)
(***************************************************************************)
MC_reset(c) == Raise(c, "AttributeError")

(***************************************************************************)
(* Bounds and inputs                                                       *)
(***************************************************************************)
MaxTrace == 7       \* step() calls followed after a decode, plus one
MaxHistory == 4     \* instructions executed in single-cycle mode
MaxCycles == 8      \* cycles executed in multi-cycle mode
MaxRun == 3         \* the argument of run

\* the record of a call: operation, arguments, what it needs of the state
\* before, the exception raised ("none" if it returned), the value returned
Call(op, args, pre, err, ret) ==
    [op |-> op, args |-> args, pre |-> pre, err |-> err, ret |-> ret]

\* instruction words by field (the layout decode_instruction reads)
EncR(rs, rt, rd, funct) == Word(rs * 32 + rt, rd * 2048 + funct)
EncI(opcode, rs, rt, imm) == Word(opcode * 1024 + rs * 32 + rt, imm)

\* every opcode with every funct (the bits the control units read)
AllOpFunct == {Word(op * 1024, f) : op \in 0 .. 63, f \in 0 .. 63}

\* one word or more of each instruction class, for a decode in mid-instruction
SampleWords ==
    {EncR(1, 2, 3, 32), EncR(1, 2, 3, 42), EncR(1, 2, 3, 63),
     EncI(8, 1, 2, 5), EncI(15, 0, 2, 65535),
     EncI(35, 0, 1, 12), EncI(43, 0, 1, 8),
     EncI(4, 1, 1, 3), EncI(5, 1, 2, 65533),
     EncI(2, 0, 0, 4), EncI(3, 0, 0, 4),
     EncI(63, 0, 0, 0)}

(***************************************************************************)
(* SpecCU: a control unit of either kind, driven through its methods       *)
(***************************************************************************)
NewControlUnit(m) == IF m = "single" THEN ControlUnit ELSE MultiCycleControlUnit

InitCU ==
    /\ mode \in {"single", "multi"}
    /\ \E w \in AllOpFunct :
          /\ cu = CU_decode_instruction(NewControlUnit(mode), w)
          /\ call = Call("decode_instruction", <<w>>, NewControlUnit(mode).state, "none", None)
    /\ trace = <<cu.state>>
    /\ dp = None
    /\ history = 0
    /\ unit = None

\* control_unit.decode_instruction(w)
CUDecode ==
    \E w \in SampleWords :
        /\ cu' = CU_decode_instruction(cu, w)
        /\ trace' = <<cu.state>>
        /\ call' = Call("decode_instruction", <<w>>, cu.state, "none", None)
        /\ UNCHANGED <<unit, mode, dp, history>>

\* control_unit.generate_control_signals()
CUGenerate ==
    /\ cu' = IF mode = "single" THEN CU_generate_control_signals(cu)
             ELSE MC_generate_control_signals(cu)
    /\ call' = Call("generate_control_signals", <<>>, cu.state, "none", cu'.signals)
    /\ UNCHANGED <<unit, mode, dp, history, trace>>

\* control_unit.step()
MCStep ==
    /\ mode = "multi"
    /\ Len(trace) < MaxTrace
    /\ cu' = MC_step(cu)
    /\ trace' = Append(trace, cu'.state)
    /\ call' = Call("step", <<>>, cu.state, "none", cu'.state)
    /\ UNCHANGED <<unit, mode, dp, history>>

NextCU == CUDecode \/ CUGenerate \/ MCStep

SpecCU == InitCU /\ [][NextCU]_vars

(***************************************************************************)
(* simulator.py: DatapathSimulator.  An exception that escapes a command     *)
(* ends the command loop: no command runs after one has raised.             *)
(***************************************************************************)
\* program images (instructions, then data words) for load_instructions
\* lw $1,12($0); lw $2,16($0); add $3,$1,$2; data 10, 20
AddProgram ==
    <<EncI(35, 0, 1, 12), EncI(35, 0, 2, 16), EncR(1, 2, 3, 32), Small(10), Small(20)>>
\* sw $1,8($0); lw $2,8($0); data 0x12345678
StoreLoadProgram == <<EncI(43, 0, 1, 8), EncI(35, 0, 2, 8), Word(4660, 22136)>>
\* beq $0,$0,3
BeqProgram == <<EncI(4, 0, 0, 3), EncI(63, 0, 0, 0)>>
\* bne $0,$0,-2
BneProgram == <<EncI(5, 0, 0, 65534), EncI(63, 0, 0, 0)>>
\* addi $1,$0,5; jal 4; halt
AddiJalProgram == <<EncI(8, 0, 1, 5), EncI(3, 0, 0, 4), EncI(63, 0, 0, 0)>>
\* halt
HaltProgram == <<EncI(63, 0, 0, 0)>>

Programs ==
    {AddProgram, StoreLoadProgram, BeqProgram, BneProgram, AddiJalProgram,
     HaltProgram}

\* the images loaded over a running program by the load command
ReloadPrograms == {BeqProgram, HaltProgram}

\* the words 0 .. Len(p)-1 of the datapath's memory are the image p
Loaded(d, p) == \A i \in 1 .. Len(p) : Data_get(d.memory.data, i - 1) = p[i]

\* the body of a single-cycle step (do_step, and each iteration of do_run):
\* decode the word in IR, generate its vector, apply it, execute an instruction
StepSingle(c, d) ==
    Bind(decode_instruction(d).obj, LAMBDA d1 :
    Bind(CU_generate_control_signals(CU_decode_instruction(c, Reg_read(d1.ir))),
         LAMBDA c1 :
    Bind(Then(set_control_signals(d1, c1.signals), execute_instruction), LAMBDA r :
    [cu |-> c1, dp |-> r.obj, err |-> r.err, ret |-> r.ret])))

\* the body of a multi-cycle step: step the control unit, then run on the
\* datapath the phase named by the state step() returned
StepMulti(c, d) ==
    Bind(MC_step(c), LAMBDA c1 :
    Bind(execute_cycle(d, c1.state), LAMBDA r :
    [cu |-> c1, dp |-> r.obj, err |-> r.err, ret |-> c1.state]))

\* DatapathSimulator.do_run, single-cycle: up to n instructions, stopping
\* before one whose word in IR has opcode 0x3F
RECURSIVE RunSingle(_, _, _, _)
RunSingle(c, d, h, n) ==
    IF n = 0 THEN [cu |-> c, dp |-> d, history |-> h, err |-> "none"]
    ELSE Bind(decode_instruction(d).obj, LAMBDA d1 :
         IF Shr(Reg_read(d1.ir), 26) = Small(63)
         THEN [cu |-> c, dp |-> d1, history |-> h, err |-> "none"]
         ELSE Bind(StepSingle(c, d), LAMBDA s :
              IF s.err # "none"
              THEN [cu |-> s.cu, dp |-> s.dp, history |-> h, err |-> s.err]
              ELSE RunSingle(s.cu, s.dp, h + 1, n - 1)))

\* DatapathSimulator.do_run, multi-cycle: up to n cycles, stopping after a
\* cycle that leaves a HALT word in IR with the FSM in FETCH
RECURSIVE RunMulti(_, _, _)
RunMulti(c, d, n) ==
    IF n = 0 THEN [cu |-> c, dp |-> d, err |-> "none"]
    ELSE Bind(StepMulti(c, d), LAMBDA s :
         IF s.err # "none" THEN [cu |-> s.cu, dp |-> s.dp, err |-> s.err]
         ELSE IF Shr(Reg_read(s.dp.ir), 26) = Small(63) /\ s.cu.state = "FETCH"
         THEN [cu |-> s.cu, dp |-> s.dp, err |-> "none"]
         ELSE RunMulti(s.cu, s.dp, n - 1))

\* DatapathSimulator.__init__(instruction_file, mode)
Init ==
    /\ mode \in {"single", "multi"}
    /\ cu = NewControlUnit(mode)
    /\ \E p \in Programs :
          /\ dp = load_program(Datapath, p, Zero).obj
          /\ call = Call("init", <<p>>, None, "none", None)
    /\ history = 0
    /\ trace = <<>>
    /\ unit = None

\* DatapathSimulator.do_step, single-cycle mode
DoStepSingle ==
    /\ mode = "single" /\ call.err = "none"
    /\ history < MaxHistory
    /\ \E s \in {StepSingle(cu, dp)} :
          /\ cu' = s.cu
          /\ dp' = s.dp
          /\ history' = IF s.err = "none" THEN history + 1 ELSE history
          /\ call' = Call("do_step", <<>>, history, s.err, s.ret)
    /\ UNCHANGED <<unit, mode, trace>>

\* DatapathSimulator.do_step, multi-cycle mode
DoStepMulti ==
    /\ mode = "multi" /\ call.err = "none"
    /\ dp.cycle_count < MaxCycles
    /\ \E s \in {StepMulti(cu, dp)} :
          /\ cu' = s.cu
          /\ dp' = s.dp
          /\ call' = Call("do_step", <<>>, cu.state, s.err, s.ret)
    /\ UNCHANGED <<unit, mode, history, trace>>

\* DatapathSimulator.do_run(n), single-cycle mode
DoRunSingle ==
    /\ mode = "single" /\ call.err = "none"
    /\ \E n \in 1 .. MaxRun :
          /\ history + n <= MaxHistory
          /\ \E r \in {RunSingle(cu, dp, history, n)} :
                /\ cu' = r.cu
                /\ dp' = r.dp
                /\ history' = r.history
                /\ call' = Call("do_run", <<n>>, history, r.err, None)
    /\ UNCHANGED <<unit, mode, trace>>

\* DatapathSimulator.do_run(n), multi-cycle mode
DoRunMulti ==
    /\ mode = "multi" /\ call.err = "none"
    /\ \E n \in 1 .. MaxRun :
          /\ dp.cycle_count + n <= MaxCycles
          /\ \E r \in {RunMulti(cu, dp, n)} :
                /\ cu' = r.cu
                /\ dp' = r.dp
                /\ call' = Call("do_run", <<n>>, cu.state, r.err, None)
    /\ UNCHANGED <<unit, mode, history, trace>>

\* DatapathSimulator.do_reset: the datapath, then (multi-cycle) the control
\* unit, then the history
DoReset ==
    /\ call.err = "none"
    /\ LET d == reset(dp).obj
           r == IF mode = "multi" THEN MC_reset(cu) ELSE Ok(cu, None)
       IN /\ dp' = d
          /\ cu' = r.obj
          /\ history' = IF r.err = "none" THEN 0 ELSE history
          /\ call' = Call("do_reset", <<>>, cu.state, r.err, None)
    /\ UNCHANGED <<unit, mode, trace>>

\* DatapathSimulator.do_load: load_instructions catches what load_program raises
DoLoad ==
    /\ call.err = "none"
    /\ \E p \in ReloadPrograms :
          /\ dp' = load_program(dp, p, Zero).obj
          /\ call' = Call("do_load", <<p>>, None, "none", None)
    /\ UNCHANGED <<unit, mode, cu, history, trace>>

Next ==
    \/ DoStepSingle
    \/ DoStepMulti
    \/ DoRunSingle
    \/ DoRunMulti
    \/ DoReset
    \/ DoLoad

Spec == Init /\ [][Next]_vars

(***************************************************************************)
(* SpecDP: a datapath on its own, its phases called in any order under any  *)
(* control vector, and its register file written through its own methods.   *)
(* An exception is caught by the caller: the object stays in use.           *)
(***************************************************************************)
MaxOps == 5         \* operations applied to the datapath

\* addi $0,$0,5; lw $1,8($0); data 7
DPProgram == <<EncI(8, 0, 0, 5), EncI(35, 0, 1, 8), Small(7)>>

\* control vectors: the default one, one that selects the constant 4 and
\* writes PC, a jump-and-link's, a load's, and one whose pc_source no
\* multiplexer input has
DPVectors ==
    {ControlSignals,
     [ControlSignals EXCEPT !.alu_src_b = 2, !.pc_write = TRUE],
     [ControlSignals EXCEPT !.reg_write = TRUE, !.reg_dst = 2, !.alu_src_a = 1,
                            !.alu_src_b = 2, !.pc_source = 2, !.pc_write = TRUE],
     [ControlSignals EXCEPT !.mem_read = TRUE, !.reg_write = TRUE,
                            !.alu_src_b = 1, !.mem_to_reg = 1, !.ir_write = TRUE],
     [ControlSignals EXCEPT !.pc_source = 3, !.reg_dst = 1]}

\* the gates fetch_instruction, memory_access and write_back test; they are
\* plain attributes that set_control_signals leaves alone
DPGates == {"mem_read", "mem_write", "ir_write", "reg_write"}

\* values written to the register file: in and beyond 32 bits
RFValues == {Small(5), PyInt(1, 0, 7)}

InitDP ==
    /\ mode = "none"
    /\ cu = None
    /\ dp = load_program(Datapath, DPProgram, Zero).obj
    /\ history = 0
    /\ trace = <<>>
    /\ unit = None
    /\ call = Call("init", <<>>, None, "none", None)

\* the outcome r of operation op on the datapath
DPApply(op, args, r) ==
    /\ history < MaxOps
    /\ dp' = r.obj
    /\ history' = history + 1
    /\ call' = Call(op, args, dp, r.err, r.ret)
    /\ UNCHANGED <<unit, mode, cu, trace>>

\* datapath.set_control_signals(v)
DPSetControlSignals ==
    \E v \in DPVectors :
        \E r \in {set_control_signals(dp, v)} :
            DPApply("set_control_signals", <<v>>, r)

\* datapath.<gate> = not datapath.<gate>
DPSetGate ==
    \E g \in DPGates :
        \E r \in {Ok([dp EXCEPT ![g] = ~@], None)} : DPApply("set_gate", <<g>>, r)

DPFetch == \E r \in {fetch_instruction(dp)} : DPApply("fetch_instruction", <<>>, r)

DPDecode == \E r \in {decode_instruction(dp)} : DPApply("decode_instruction", <<>>, r)

DPReadRegisters == \E r \in {read_registers(dp)} : DPApply("read_registers", <<>>, r)

DPExecute == \E r \in {execute(dp)} : DPApply("execute", <<>>, r)

DPMemoryAccess == \E r \in {memory_access(dp)} : DPApply("memory_access", <<>>, r)

DPWriteBack == \E r \in {write_back(dp)} : DPApply("write_back", <<>>, r)

DPUpdatePC == \E r \in {update_pc(dp)} : DPApply("update_pc", <<>>, r)

DPReset == \E r \in {reset(dp)} : DPApply("reset", <<>>, r)

\* datapath.register_file.set_write_enable(b)
RFSetWriteEnable ==
    \E b \in BOOLEAN :
        \E r \in {Ok([dp EXCEPT !.register_file = RF_set_write_enable(@, b)], None)} :
            DPApply("RegisterFile.set_write_enable", <<b>>, r)

\* datapath.register_file.write(n, v)
RFWrite ==
    \E n \in {0, 1}, v \in RFValues :
        \E r \in {Ok([dp EXCEPT !.register_file = RF_write(@, n, v)], None)} :
            DPApply("RegisterFile.write", <<n, v>>, r)

NextDP ==
    \/ DPSetControlSignals
    \/ DPSetGate
    \/ DPFetch
    \/ DPDecode
    \/ DPReadRegisters
    \/ DPExecute
    \/ DPMemoryAccess
    \/ DPWriteBack
    \/ DPUpdatePC
    \/ DPReset
    \/ RFSetWriteEnable
    \/ RFWrite

SpecDP == InitDP /\ [][NextDP]_vars

(***************************************************************************)
(* SpecCycle: a multi-cycle datapath on its own, driven cycle by cycle     *)
(* with any state name, under any control vector and gate setting          *)
(***************************************************************************)
\* the names execute_cycle is called with: the FSM states and one it does
\* not know
CycleStates == States \cup {"HALT"}

\* datapath.execute_cycle(state)
DPCycle ==
    \E state \in CycleStates :
        \E r \in {execute_cycle(dp, state)} : DPApply("execute_cycle", <<state>>, r)

NextCycle == DPSetControlSignals \/ DPSetGate \/ DPCycle

SpecCycle == InitDP /\ [][NextCycle]_vars

(***************************************************************************)
(* SpecInstr: a single-cycle datapath on its own, executing whole          *)
(* instructions under any control vector and gate setting                  *)
(***************************************************************************)
\* datapath.execute_instruction()
DPExecuteInstruction ==
    \E r \in {execute_instruction(dp)} : DPApply("execute_instruction", <<>>, r)

NextInstr == DPSetControlSignals \/ DPSetGate \/ DPExecuteInstruction

SpecInstr == InitDP /\ [][NextInstr]_vars

(***************************************************************************)
(* SpecFields: a datapath whose IR is loaded with any word and decoded     *)
(***************************************************************************)
\* instruction words with every field at 0, at 1, at its maximum and around
\* the bits where the fields meet
DecodeWords ==
    {Word(h, l) : h \in {0, 1, 31, 32, 1023, 1024, 32768, 65535},
                  l \in {0, 1, 63, 64, 2047, 2048, 32768, 65535}}

\* the words latched over a decoded instruction
LatchWords == {Word(32799, 65535), Word(1024, 32767), Zero}

InitFields ==
    /\ mode = "none"
    /\ cu = None
    /\ \E w \in DecodeWords :
          /\ dp = [load_program(Datapath, DPProgram, Zero).obj
                      EXCEPT !.ir = Reg_latch(@, w), !.pc = Reg_latch(@, Small(4))]
          /\ call = Call("init", <<w>>, None, "none", None)
    /\ history = 0
    /\ trace = <<>>
    /\ unit = None

\* datapath.ir.set_enable(True); datapath.ir.write(w); datapath.ir.set_enable(False)
FieldsLatch ==
    \E w \in LatchWords :
        /\ dp' = [dp EXCEPT !.ir = Reg_latch(@, w)]
        /\ call' = Call("ir.write", <<w>>, dp, "none", None)
        /\ UNCHANGED <<unit, mode, cu, history, trace>>

\* datapath.decode_instruction()
FieldsDecode ==
    \E r \in {decode_instruction(dp)} :
        /\ dp' = r.obj
        /\ call' = Call("decode_instruction", <<>>, dp, r.err, r.ret)
        /\ UNCHANGED <<unit, mode, cu, history, trace>>

NextFields == FieldsLatch \/ FieldsDecode

SpecFields == InitFields /\ [][NextFields]_vars

(***************************************************************************)
(* SpecUnits: a Register on its own, driven through its methods            *)
(***************************************************************************)
Widths == {8, 16, 32}

\* values written: negative, within 32 bits and beyond, with bits set on
\* either side of bit 8 and of bit 16
WriteValues ==
    {PyInt(e, h, l) : e \in {-1, 0, 1}, h \in {0, 1, 65535}, l \in {0, 255, 256, 65535}}

InitUnits ==
    /\ mode = "none"
    /\ cu = None
    /\ dp = None
    /\ history = 0
    /\ trace = <<>>
    /\ \E w \in Widths : unit = Register(w, Zero)
    /\ call = Call("init", <<>>, None, "none", None)

\* register.write(v)
RegWrite ==
    \E v \in WriteValues :
        /\ unit' = Reg_write(unit, v)
        /\ call' = Call("Register.write", <<v>>, unit, "none", None)
        /\ UNCHANGED <<mode, cu, dp, history, trace>>

\* register.set_enable(b)
RegSetEnable ==
    \E b \in BOOLEAN :
        /\ unit' = Reg_set_enable(unit, b)
        /\ call' = Call("Register.set_enable", <<b>>, unit, "none", None)
        /\ UNCHANGED <<mode, cu, dp, history, trace>>

\* register.reset()
RegReset ==
    /\ unit' = Reg_reset(unit)
    /\ call' = Call("Register.reset", <<>>, unit, "none", None)
    /\ UNCHANGED <<mode, cu, dp, history, trace>>

NextUnits == RegWrite \/ RegSetEnable \/ RegReset

SpecUnits == InitUnits /\ [][NextUnits]_vars

(***************************************************************************)
(* SpecALU: an ALU on its own.  Its inputs are any two 32-bit words, set    *)
(* once it is constructed; its operation is then set and executed in any    *)
(* order, and its inputs are set again.                                     *)
(***************************************************************************)
\* 32-bit words around 0, around the sign bit and with mixed bit patterns
AluWords ==
    {Word(h, l) : h \in {0, 32767, 32768, 65535}, l \in {0, 1, 65535}}
        \cup {Word(42405, 23130), Word(23130, 42405)}

\* every shift amount
ShiftAmounts == {Small(n) : n \in 0 .. 31}

\* the input pairs set again over a computed result
AluPairsAgain == {<<Word(32768, 1), Small(4)>>, <<Small(6), Small(7)>>}

\* the nine operation codes and the integers next to them
AluOperations == -1 .. 10

InitALU ==
    /\ mode = "none"
    /\ cu = None
    /\ dp = None
    /\ history = 0
    /\ trace = <<>>
    /\ \E a \in AluWords, b \in AluWords \cup ShiftAmounts :
          /\ unit = ALU_set_inputs(ALU, a, b)
          /\ call = Call("set_inputs", <<a, b>>, None, "none", None)

\* alu.set_inputs(a, b)
ALUSetInputs ==
    \E p \in AluPairsAgain :
        /\ unit' = ALU_set_inputs(unit, p[1], p[2])
        /\ call' = Call("set_inputs", p, None, "none", None)
        /\ UNCHANGED <<mode, cu, dp, history, trace>>

\* alu.set_operation(op)
ALUSetOperation ==
    \E op \in AluOperations :
        /\ unit' = ALU_set_operation(unit, op)
        /\ call' = Call("set_operation", <<op>>, None, "none", None)
        /\ UNCHANGED <<mode, cu, dp, history, trace>>

\* alu.execute()
ALUExecute ==
    \E r \in {ALU_execute(unit)} :
        /\ unit' = r.obj
        /\ call' = Call("execute", <<>>, unit, r.err, r.ret)
        /\ UNCHANGED <<mode, cu, dp, history, trace>>

NextALU == ALUSetInputs \/ ALUSetOperation \/ ALUExecute

SpecALU == InitALU /\ [][NextALU]_vars

(***************************************************************************)
(* SpecMem: a Memory on its own, driven through its methods.  An exception  *)
(* is caught by the caller: the memory stays in use.                        *)
(***************************************************************************)
\* addresses of the first words, of the last word, between two words, just
\* past the end, below 0 and at 2^32
MemAddresses ==
    {Zero, Small(4), Small(6), Small(4092), Small(4096),
     PyInt(-1, 65535, 65532), PyInt(1, 0, 0)}

\* values written: within and beyond 32 bits
MemValues == {Small(7), PyInt(1, 0, 9)}

\* programs loaded, and the addresses they are loaded at: the start, two
\* words before the end, one word before the end and the end
MemPrograms == {<<Small(1), Small(2), Small(3)>>, <<PyInt(1, 0, 5)>>}
MemStarts == {Zero, Small(4088), Small(4092), Small(4096)}

InitMem ==
    /\ mode = "none"
    /\ cu = None
    /\ dp = None
    /\ history = 0
    /\ trace = <<>>
    /\ unit = Memory
    /\ call = Call("init", <<>>, None, "none", None)

\* the outcome r of operation op on the unit
UnitApply(op, args, r) ==
    /\ unit' = r.obj
    /\ call' = Call(op, args, unit, r.err, r.ret)
    /\ UNCHANGED <<mode, cu, dp, history, trace>>

\* memory.set_read_enable(b)
MemSetReadEnable ==
    \E b \in BOOLEAN :
        \E r \in {Ok(Mem_set_read_enable(unit, b), None)} :
            UnitApply("set_read_enable", <<b>>, r)

\* memory.set_write_enable(b)
MemSetWriteEnable ==
    \E b \in BOOLEAN :
        \E r \in {Ok(Mem_set_write_enable(unit, b), None)} :
            UnitApply("set_write_enable", <<b>>, r)

\* memory.read(address)
MemRead ==
    \E address \in MemAddresses :
        \E r \in {Mem_read(unit, address)} : UnitApply("read", <<address>>, r)

\* memory.write(address, value)
MemWrite ==
    \E address \in MemAddresses, value \in MemValues :
        \E r \in {Mem_write(unit, address, value)} :
            UnitApply("write", <<address, value>>, r)

\* memory.load_program(program, start_address)
MemLoadProgram ==
    \E program \in MemPrograms, start_address \in MemStarts :
        \E r \in {Mem_load_program(unit, program, start_address)} :
            UnitApply("load_program", <<program, start_address>>, r)

NextMem ==
    \/ MemSetReadEnable
    \/ MemSetWriteEnable
    \/ MemRead
    \/ MemWrite
    \/ MemLoadProgram

SpecMem == InitMem /\ [][NextMem]_vars

(***************************************************************************)
(* SpecRF: a RegisterFile on its own, driven through its methods            *)
(***************************************************************************)
\* register numbers: the first, the last, and the integers next to them
RegisterNumbers == {-1, 0, 1, NumRegisters - 1, NumRegisters}

InitRF ==
    /\ mode = "none"
    /\ cu = None
    /\ dp = None
    /\ history = 0
    /\ trace = <<>>
    /\ unit = RegisterFile
    /\ call = Call("init", <<>>, None, "none", None)

\* register_file.set_write_enable(b)
RegFileSetWriteEnable ==
    \E b \in BOOLEAN :
        \E r \in {Ok(RF_set_write_enable(unit, b), None)} :
            UnitApply("set_write_enable", <<b>>, r)

\* register_file.read(n)
RegFileRead ==
    \E n \in RegisterNumbers :
        \E r \in {RF_read(unit, n)} : UnitApply("read", <<n>>, r)

\* register_file.write(n, v)
RegFileWrite ==
    \E n \in RegisterNumbers, v \in RFValues :
        \E r \in {Ok(RF_write(unit, n, v), None)} : UnitApply("write", <<n, v>>, r)

NextRF == RegFileSetWriteEnable \/ RegFileRead \/ RegFileWrite

SpecRF == InitRF /\ [][NextRF]_vars

(***************************************************************************)
(* SpecMux: a Multiplexer on its own, driven through its methods            *)
(***************************************************************************)
\* the capacities the datapath's multiplexers have
MuxCapacities == {2, 3}

\* input lists of every length up to one more than the largest capacity
MuxInputLists ==
    UNION {[1 .. n -> {Small(1), Small(2)}] : n \in 0 .. 4}

\* select values: every index of the largest capacity and the integers next
\* to them
MuxSelects == -1 .. 3

InitMux ==
    /\ mode = "none"
    /\ cu = None
    /\ dp = None
    /\ history = 0
    /\ trace = <<>>
    /\ \E n \in MuxCapacities : unit = Multiplexer(n)
    /\ call = Call("init", <<>>, None, "none", None)

\* mux.set_inputs(inputs)
MuxSetInputs ==
    \E inputs \in MuxInputLists :
        \E r \in {Mux_set_inputs(unit, inputs)} : UnitApply("set_inputs", <<inputs>>, r)

\* mux.set_select(select)
MuxSetSelect ==
    \E select \in MuxSelects :
        \E r \in {Mux_set_select(unit, select)} : UnitApply("set_select", <<select>>, r)

\* mux.get_output()
MuxGetOutput ==
    \E r \in {Ok(unit, Mux_get_output(unit))} : UnitApply("get_output", <<>>, r)

NextMux == MuxSetInputs \/ MuxSetSelect \/ MuxGetOutput

SpecMux == InitMux /\ [][NextMux]_vars

(***************************************************************************)
(* Claims about the control units (checked under SpecCU)                   *)
(***************************************************************************)
\* the states an instruction of class t visits, from FETCH to the last one
\* before FETCH again (the transition table of the design, section 4.4)
ExpectedCycle(t) ==
    IF t = "LOAD" THEN <<"FETCH", "DECODE", "EXECUTE", "MEMORY", "WRITEBACK">>
    ELSE IF t = "STORE" THEN <<"FETCH", "DECODE", "EXECUTE", "MEMORY">>
    ELSE IF t \in {"R_TYPE", "I_TYPE"} THEN <<"FETCH", "DECODE", "EXECUTE", "WRITEBACK">>
    ELSE <<"FETCH", "DECODE", "EXECUTE">>

\* the successor of state s for class t, by the same table
TableSuccessor(s, t) ==
    IF s = "FETCH" THEN "DECODE"
    ELSE IF s = "DECODE" THEN "EXECUTE"
    ELSE IF s = "EXECUTE" THEN
        (IF t \in {"LOAD", "STORE"} THEN "MEMORY"
         ELSE IF t \in {"R_TYPE", "I_TYPE"} THEN "WRITEBACK"
         ELSE "FETCH")
    ELSE IF s = "MEMORY" THEN (IF t = "LOAD" THEN "WRITEBACK" ELSE "FETCH")
    ELSE "FETCH"

\* C1: from FETCH with an instruction decoded, the states step() visits are
\* FETCH, DECODE, EXECUTE, then MEMORY, WRITEBACK (LOAD), MEMORY (STORE),
\* WRITEBACK (R_TYPE, I_TYPE) or nothing (BRANCH, JUMP, HALT), then FETCH
\* again, and so on round the same cycle.
C1_VisitedStates ==
    (mode = "multi" /\ trace[1] = "FETCH") =>
        LET cyc == ExpectedCycle(get_instruction_type(cu))
        IN \A i \in 1 .. Len(trace) : trace[i] = cyc[((i - 1) % Len(cyc)) + 1]

\* a LOAD has gone round its five states and is in FETCH again, and a branch
\* is back in FETCH after three
C1_Witness ==
    /\ mode = "multi"
    /\ get_instruction_type(cu) = "LOAD"
    /\ trace = <<"FETCH", "DECODE", "EXECUTE", "MEMORY", "WRITEBACK", "FETCH">>

\* C2: after step(), signals is the vector of the state held before the call,
\* the FSM is in the table's successor of that state, and step() returned it.
C2_StepAdvancesOnePhase ==
    (mode = "multi" /\ call.op = "step") =>
        /\ cu.signals = MC_signals([cu EXCEPT !.state = call.pre])
        /\ cu.state = TableSuccessor(call.pre, get_instruction_type(cu))
        /\ call.ret = cu.state
        /\ cu.next_state = cu.state

\* a step taken in EXECUTE by a STORE
C2_Witness ==
    /\ mode = "multi" /\ call.op = "step" /\ call.pre = "EXECUTE"
    /\ get_instruction_type(cu) = "STORE" /\ cu.state = "MEMORY"
    /\ cu.signals.alu_src_b = 1

\* C3: for a HALT instruction (opcode 0x3F) the EXECUTE vector asserts none of
\* mem_read, mem_write, reg_write, and the step taken from EXECUTE returns the
\* FSM to FETCH.
C3_HaltExecute ==
    /\ (mode = "multi" /\ cu.opcode = 63 /\ call.op = "step" /\ call.pre = "EXECUTE") =>
           /\ ~cu.signals.mem_read /\ ~cu.signals.mem_write /\ ~cu.signals.reg_write
           /\ cu.state = "FETCH" /\ call.ret = "FETCH"
    /\ (mode = "multi" /\ cu.opcode = 63 /\ call.op = "generate_control_signals"
            /\ cu.state = "EXECUTE") =>
           ~cu.signals.mem_read /\ ~cu.signals.mem_write /\ ~cu.signals.reg_write

C3_Witness ==
    /\ mode = "multi" /\ cu.opcode = 63 /\ call.op = "step" /\ call.pre = "EXECUTE"
    /\ cu.state = "FETCH"

\* C4: no vector either control unit produces, for any instruction word and
\* any FSM state, has mem_read and mem_write both true.
C4_ReadWriteExclusive == ~(cu.signals.mem_read /\ cu.signals.mem_write)

\* the multi-cycle unit has generated the MEMORY vector of a STORE
C4_Witness ==
    /\ mode = "multi" /\ call.op = "generate_control_signals"
    /\ cu.state = "MEMORY" /\ get_instruction_type(cu) = "STORE"
    /\ cu.signals.mem_write

\* C8: for every BRANCH instruction, the single-cycle vector and the
\* multi-cycle EXECUTE vector select the branch target (pc_source = 1 with
\* pc_write) exactly when the zero flag of the rs - rt comparison matches the
\* branch's sense: zero for beq (0x04), non-zero for bne (0x05).  The registers
\* compared are those of a register file as constructed.
C8_BranchFollowsZeroFlag ==
    LET instr == cu.current_instruction
        rs == ToNat(BitAnd(Shr(instr, 21), x1F))
        rt == ToNat(BitAnd(Shr(instr, 16), x1F))
        zero == ALU_result(1, Reg_read(RegisterFile.registers[rs]),
                              Reg_read(RegisterFile.registers[rt])) = Zero
        taken == cu.signals.pc_source = 1 /\ cu.signals.pc_write
        generated == \/ call.op = "generate_control_signals"
                        /\ (mode = "single" \/ cu.state = "EXECUTE")
                     \/ call.op = "step" /\ call.pre = "EXECUTE"
    IN (generated /\ get_instruction_type(cu) = "BRANCH") =>
           (taken <=> ((cu.opcode = 4 /\ zero) \/ (cu.opcode = 5 /\ ~zero)))

(***************************************************************************)
(* Claims about the simulator in single-cycle mode (checked under Spec)    *)
(***************************************************************************)
\* a step or run command has returned with n instructions in the history
Executed(n) ==
    /\ mode = "single"
    /\ call.op \in {"do_step", "do_run"}
    /\ call.err = "none"
    /\ history = n

\* register i of the datapath's register file
Reg(i) == Reg_read(dp.register_file.registers[i])

\* C5: with lw $1, lw $2 loading 10 and 20, then add $3,$1,$2 executed as
\* the third instruction on the single-cycle datapath driven by the
\* single-cycle control unit, register 3 is 30 and the ALU zero flag is false.
C5_AddAfterLoads ==
    (Executed(3) /\ Loaded(dp, AddProgram)) =>
        (Reg(3) = Small(30) /\ ~dp.alu.zero)

\* C6: after a STORE of register 1 to address 8 and a LOAD from address 8
\* into register 2, register 2 and the memory word at address 8 both hold
\* the value of register 1 truncated to 32 bits.
C6_StoreLoadRoundTrip ==
    (Executed(2) /\ Loaded(dp, SubSeq(StoreLoadProgram, 1, 2))) =>
        LET stored == BitAnd(Reg(1), xFFFFFFFF)
        IN Data_get(dp.memory.data, 2) = stored /\ Reg(2) = stored

\* C7: beq $0,$0,3 executed at PC 0 (rs - rt is zero) leaves pc_source = 1 in
\* the control vector and commits PC = PC_at_branch + (3 << 2), PC_at_branch
\* read either as the branch's own address or as the incremented one.
C7_BranchOnEqualTaken ==
    (Executed(1) /\ call.op = "do_step" /\ call.pre = 0 /\ Loaded(dp, BeqProgram)) =>
        (cu.signals.pc_source = 1 /\ Reg_read(dp.pc) \in {Small(12), Small(16)})

(***************************************************************************)
(* Claims about the register file (checked under SpecDP)                   *)
(***************************************************************************)
\* C9: register 0 reads as 0 in every reachable state: write(0, v) changes
\* no register whatever write_enable is, and no sequence of datapath phases
\* under any control vector makes read(0) non-zero.
C9_RegisterZero ==
    /\ RF_read(dp.register_file, 0) = Ok(dp.register_file, Zero)
    /\ (call.op = "RegisterFile.write" /\ call.args[1] = 0) =>
           dp.register_file.registers = call.pre.register_file.registers

\* write(0, v) with v non-zero has been called with write_enable true
C9_Witness ==
    /\ call.op = "RegisterFile.write" /\ call.args[1] = 0
    /\ call.args[2] # Zero
    /\ call.pre.register_file.write_enable

\* write_back has run with the reg_write gate open, register 0 as its
\* destination and a non-zero ALU_OUT as its data
C9_WriteBackToZero ==
    /\ call.op = "write_back" /\ call.pre.reg_write
    /\ call.pre.rt = 0 /\ Mux_get_output(call.pre.reg_dst_mux) = Zero
    /\ Mux_get_output(call.pre.mem_to_reg_mux) = Zero
    /\ Reg_read(call.pre.alu_out) # Zero

(***************************************************************************)
(* Claims about Register (checked under SpecUnits)                         *)
(***************************************************************************)
\* v mod 2^w, from the representation: the bits of v below bit w
ModPow2(v, w) ==
    IF w >= 32 THEN PyInt(v.ext % (2 ^ (w - 32)), v.hi, v.lo)
    ELSE IF w >= 16 THEN PyInt(0, v.hi % (2 ^ (w - 16)), v.lo)
    ELSE PyInt(0, 0, v.lo % (2 ^ w))

\* C10: write(v) with enable false leaves read() unchanged for every v; with
\* enable true, read() afterwards is v mod 2^width.
C10_WriteGating ==
    call.op = "Register.write" =>
        IF call.pre.enable
        THEN Reg_read(unit) = ModPow2(call.args[1], unit.width)
        ELSE Reg_read(unit) = Reg_read(call.pre)

\* an enabled write of a negative value to an 8-bit register, which the mask
\* changes, and which differs from the value held before
C10_Witness ==
    /\ call.op = "Register.write" /\ call.pre.enable
    /\ unit.width = 8
    /\ call.args[1].ext = -1
    /\ Reg_read(unit) = Small(255)
    /\ Reg_read(call.pre) # Reg_read(unit)

(***************************************************************************)
(* Claims about the reset command (checked under Spec)                     *)
(***************************************************************************)
\* C11: the reset of the multi-cycle control unit, called in any FSM state,
\* completes without error and leaves state and next_state both FETCH.
C11_ResetReturnsToFetch ==
    (mode = "multi" /\ call.op = "do_reset") =>
        (call.err = "none" /\ cu.state = "FETCH" /\ cu.next_state = "FETCH")

(***************************************************************************)
(* Claims about the datapath phases (checked under SpecDP)                 *)
(***************************************************************************)
\* the registers of the datapath outside the register file
HoldingRegisters(d) == <<d.pc, d.ir, d.mdr, d.alu_out, d.a, d.b>>

\* C12: reset() sets PC, IR, MDR, ALU_OUT, A, B and all 32 general registers
\* to zero whatever their enable flags are, and a second reset() right after
\* the first leaves the state as the first left it.
C12_ResetZeroesAndIsIdempotent ==
    call.op = "reset" =>
        /\ \A i \in 1 .. 6 : Reg_read(HoldingRegisters(dp)[i]) = Zero
        /\ \A i \in 0 .. NumRegisters - 1 :
               Reg_read(dp.register_file.registers[i]) = Zero
        /\ reset(dp) = Ok(dp, None)

\* a reset of a datapath whose PC and register 1 were not zero
C12_Witness ==
    /\ call.op = "reset"
    /\ Reg_read(call.pre.pc) # Zero
    /\ Reg_read(call.pre.register_file.registers[1]) # Zero
    /\ ~call.pre.pc.enable

\* C13: fetch_instruction returns the memory word at PC, always computes
\* PC + 4 through the ALU, changes PC (to PC + 4 mod 2^32) exactly when the
\* pc_write gate is asserted and IR (to the fetched word) exactly when the
\* ir_write gate is asserted.
C13_FetchComputesNextPC ==
    (call.op = "fetch_instruction" /\ call.err = "none") =>
        LET pc0 == Reg_read(call.pre.pc)
            word == Data_get(call.pre.memory.data, ToNat(Shr(pc0, 2)))
            next == BitAnd(Add(pc0, Small(4)), xFFFFFFFF)
        IN /\ call.ret = word
           /\ dp.alu.result = next
           /\ Reg_read(dp.pc) = (IF call.pre.pc_write THEN next ELSE pc0)
           /\ Reg_read(dp.ir) = (IF call.pre.ir_write THEN word
                                 ELSE Reg_read(call.pre.ir))

\* C14: memory_access uses ALU_OUT as the address: with mem_read asserted it
\* loads the addressed word into MDR and returns it, leaving the memory words
\* as they were; with mem_write asserted (and mem_read not) it stores register
\* B's value at that address and changes nothing else; with neither asserted
\* it changes nothing and returns no value.  The memory's own read/write
\* strobes are left de-asserted.
C14_MemoryAccess ==
    (call.op = "memory_access" /\ call.err = "none") =>
        LET p == call.pre
            index == ToNat(Shr(Reg_read(p.alu_out), 2))
            word == Data_get(p.memory.data, index)
        IN  IF p.mem_read THEN
                /\ call.ret = word
                /\ dp = [p EXCEPT !.mdr.value = word, !.memory.read_enable = FALSE]
            ELSE IF p.mem_write THEN
                /\ call.ret = None
                /\ dp = [p EXCEPT !.memory.data = Data_put(@, index, Reg_read(p.b)),
                                  !.memory.write_enable = FALSE]
            ELSE call.ret = None /\ dp = p

\* a load of a non-zero word into an MDR that held another value
C14_Witness ==
    /\ call.op = "memory_access" /\ call.err = "none"
    /\ call.pre.mem_read
    /\ call.ret # Zero
    /\ Reg_read(call.pre.mdr) # call.ret
    /\ Reg_read(dp.mdr) = call.ret

\* a store that replaced a non-zero memory word by register B's value
C14_StoreWitness ==
    /\ call.op = "memory_access" /\ call.err = "none"
    /\ ~call.pre.mem_read /\ call.pre.mem_write
    /\ dp.memory.data # call.pre.memory.data

\* C15: with the reg_write gate asserted and the selectors a control vector
\* set, write_back writes exactly one register: rt when reg_dst = 0, rd when
\* reg_dst = 1, 31 when reg_dst = 2 (register 0 excepted), with ALU_OUT when
\* mem_to_reg = 0 and MDR when mem_to_reg = 1; with the gate de-asserted it
\* writes nothing.
C15_WriteBackDestination ==
    (call.op = "write_back" /\ call.err = "none") =>
        LET p == call.pre
            index == IF p.reg_dst_mux.select = 0 THEN p.rt
                     ELSE IF p.reg_dst_mux.select = 1 THEN p.rd
                     ELSE 31
            data == IF p.mem_to_reg_mux.select = 0 THEN Reg_read(p.alu_out)
                    ELSE Reg_read(p.mdr)
        IN \A i \in 0 .. NumRegisters - 1 :
               Reg_read(dp.register_file.registers[i]) =
                   IF p.reg_write /\ i = index /\ i # 0 THEN data
                   ELSE Reg_read(p.register_file.registers[i])

\* C16: after a fetch has loaded the ALU-source multiplexers and a control
\* vector has set their selectors, execute feeds the ALU with register A when
\* alu_src_a = 0 and PC when alu_src_a = 1, and with register B when
\* alu_src_b = 0, the sign-extended immediate when alu_src_b = 1 and the
\* constant 4 when alu_src_b = 2, and latches the ALU result into ALU_OUT.
C16_ExecuteSources ==
    (call.op = "execute" /\ call.err = "none"
        /\ call.pre.alu_src_b_mux.inputs[2] = Small(4)) =>
        LET p == call.pre
            input_a == IF p.alu_src_a_mux.select = 0 THEN Reg_read(p.a)
                       ELSE Reg_read(p.pc)
            input_b == IF p.alu_src_b_mux.select = 0 THEN Reg_read(p.b)
                       ELSE IF p.alu_src_b_mux.select = 1 THEN p.immediate
                       ELSE Small(4)
        IN /\ dp.alu.input_a = input_a
           /\ dp.alu.input_b = input_b
           /\ Reg_read(dp.alu_out) = dp.alu.result
           /\ call.ret = dp.alu.result

(***************************************************************************)
(* Claims about decode_instruction (checked under SpecFields)              *)
(***************************************************************************)
\* C17: for every 32-bit word in IR, decode_instruction yields opcode = bits
\* 31-26, rs = bits 25-21, rt = bits 20-16, rd = bits 15-11, shamt = bits
\* 10-6, funct = bits 5-0, address = bits 25-0 and immediate = bits 15-0 with
\* bit 15 copied into bits 31-16; it changes no register, memory word or PC.
C17_DecodeFields ==
    (call.op = "decode_instruction") =>
        LET w == Reg_read(call.pre.ir)
        IN /\ call.err = "none"
           /\ dp.opcode = w.hi \div 1024
           /\ dp.rs = (w.hi \div 32) % 32
           /\ dp.rt = w.hi % 32
           /\ dp.rd = w.lo \div 2048
           /\ dp.shamt = (w.lo \div 64) % 32
           /\ dp.funct = w.lo % 64
           /\ dp.address = PyInt(0, w.hi % 1024, w.lo)
           /\ dp.immediate = PyInt(0, IF w.lo >= 32768 THEN 65535 ELSE 0, w.lo)
           /\ dp.current_instruction = w
           /\ HoldingRegisters(dp) = HoldingRegisters(call.pre)
           /\ dp.register_file = call.pre.register_file
           /\ dp.memory = call.pre.memory
           /\ dp.alu = call.pre.alu

\* the word 0x801FFFFF decoded over the fields of another word: opcode 32,
\* rs 0, rt 31, rd 31, shamt 31, funct 63 and a negative immediate
C17_Witness ==
    /\ call.op = "decode_instruction"
    /\ Reg_read(dp.ir) = Word(32799, 65535)
    /\ dp.opcode = 32 /\ dp.rt = 31 /\ dp.funct = 63
    /\ dp.immediate = xFFFFFFFF
    /\ call.pre.opcode # 32

(***************************************************************************)
(* Claims about execute_cycle (checked under SpecCycle)                    *)
(***************************************************************************)
\* C18: each execute_cycle(state) increases cycle_count by exactly 1 and runs
\* only the phase named by state: FETCH leaves the register file, A, B,
\* ALU_OUT, MDR and the memory words unchanged; DECODE leaves PC, IR, the
\* register file and memory unchanged; EXECUTE leaves PC, IR, the register
\* file, MDR and memory unchanged; MEMORY leaves PC, IR and the register file
\* unchanged; WRITEBACK leaves PC, IR, MDR, ALU_OUT and memory unchanged; any
\* other name leaves everything but the counter unchanged.
C18_CycleRunsOnePhase ==
    call.op = "execute_cycle" =>
        LET p == call.pre
            state == call.args[1]
        IN /\ dp.cycle_count = p.cycle_count + 1
           /\ state = "FETCH" =>
                  /\ dp.register_file = p.register_file
                  /\ <<dp.a, dp.b, dp.alu_out, dp.mdr>> = <<p.a, p.b, p.alu_out, p.mdr>>
                  /\ dp.memory.data = p.memory.data
           /\ state = "DECODE" =>
                  /\ <<dp.pc, dp.ir>> = <<p.pc, p.ir>>
                  /\ dp.register_file = p.register_file
                  /\ dp.memory = p.memory
           /\ state = "EXECUTE" =>
                  /\ <<dp.pc, dp.ir, dp.mdr>> = <<p.pc, p.ir, p.mdr>>
                  /\ dp.register_file = p.register_file
                  /\ dp.memory = p.memory
           /\ state = "MEMORY" =>
                  /\ <<dp.pc, dp.ir>> = <<p.pc, p.ir>>
                  /\ dp.register_file = p.register_file
           /\ state = "WRITEBACK" =>
                  /\ <<dp.pc, dp.ir, dp.mdr, dp.alu_out>> = <<p.pc, p.ir, p.mdr, p.alu_out>>
                  /\ dp.memory = p.memory
           /\ state \notin States => dp = [p EXCEPT !.cycle_count = @ + 1]

\* a FETCH cycle, not the first cycle, that changed both PC and IR
C18_Witness ==
    /\ call.op = "execute_cycle" /\ call.args = <<"FETCH">>
    /\ call.pre.cycle_count > 0
    /\ dp.pc # call.pre.pc
    /\ dp.ir # call.pre.ir

\* C19: for a jump-and-link instruction (opcode 0x03) driven by step() from
\* FETCH, one of the vectors generated before the FSM is in FETCH again has
\* reg_write asserted with reg_dst = 2 and mem_to_reg = 0.  The vectors
\* generated are those of the states visited, trace[1] .. trace[Len - 1].
C19_JalWritesReturnAddress ==
    (/\ mode = "multi" /\ cu.opcode = 3
     /\ call.op = "step" /\ cu.state = "FETCH"
     /\ trace[1] = "FETCH" /\ Len(trace) > 1) =>
        \E i \in 1 .. Len(trace) - 1 :
            LET v == MC_signals([cu EXCEPT !.state = trace[i]])
            IN v.reg_write /\ v.reg_dst = 2 /\ v.mem_to_reg = 0

\* C20: the multi-cycle vector generated in FETCH has mem_read, ir_write and
\* pc_write asserted with alu_src_a = 1 (PC), alu_src_b = 2 (constant 4),
\* alu_op = 0 (ADD) and pc_source = 0, and mem_write and reg_write
\* de-asserted; the vector generated in DECODE has every field at its default
\* (nothing asserted); the vector generated in MEMORY asserts mem_read and not
\* mem_write for a LOAD, mem_write and not mem_read for a STORE, and an
\* instruction stepped from FETCH is in MEMORY only as a LOAD or a STORE, so
\* that exactly one of the two is asserted.
C20_PhaseVectors ==
    LET v == cu.signals
        GeneratedIn(S) ==
            /\ mode = "multi"
            /\ \/ call.op = "generate_control_signals" /\ cu.state = S
               \/ call.op = "step" /\ call.pre = S
        t == get_instruction_type(cu)
    IN /\ GeneratedIn("FETCH") =>
              /\ v.mem_read /\ v.ir_write /\ v.pc_write
              /\ v.alu_src_a = 1 /\ v.alu_src_b = 2 /\ v.alu_op = 0
              /\ v.pc_source = 0
              /\ ~v.mem_write /\ ~v.reg_write
       /\ GeneratedIn("DECODE") =>
              v = [pc_write |-> FALSE, pc_source |-> 0, mem_read |-> FALSE,
                   mem_write |-> FALSE, reg_write |-> FALSE, reg_dst |-> 0,
                   alu_src_a |-> 0, alu_src_b |-> 0, alu_op |-> 0,
                   mem_to_reg |-> 0, ir_write |-> FALSE]
       /\ GeneratedIn("MEMORY") =>
              /\ t = "LOAD" => v.mem_read /\ ~v.mem_write
              /\ t = "STORE" => v.mem_write /\ ~v.mem_read
              /\ trace[1] = "FETCH" =>
                     /\ t \in {"LOAD", "STORE"}
                     /\ v.mem_read # v.mem_write

\* a LOAD stepped from FETCH has just left MEMORY with the read asserted
C20_Witness ==
    /\ mode = "multi" /\ call.op = "step" /\ call.pre = "MEMORY"
    /\ trace = <<"FETCH", "DECODE", "EXECUTE", "MEMORY", "WRITEBACK">>
    /\ get_instruction_type(cu) = "LOAD"
    /\ cu.signals.mem_read /\ ~cu.signals.mem_write

\* C21: for every instruction word, the alu_src_a, alu_src_b and alu_op of the
\* vector the MultiCycleControlUnit generates in EXECUTE equal those of the
\* vector a single-cycle ControlUnit generates for the same word.
C21_ExecuteMatchesSingleCycle ==
    (/\ mode = "multi"
     /\ \/ call.op = "generate_control_signals" /\ cu.state = "EXECUTE"
        \/ call.op = "step" /\ call.pre = "EXECUTE") =>
        LET single == CU_generate_control_signals(
                          CU_decode_instruction(ControlUnit, cu.current_instruction)).signals
        IN /\ cu.signals.alu_src_a = single.alu_src_a
           /\ cu.signals.alu_src_b = single.alu_src_b
           /\ cu.signals.alu_op = single.alu_op

\* a jal stepped through EXECUTE: PC and the constant 4 are the ALU's sources
C21_Witness ==
    /\ mode = "multi" /\ call.op = "step" /\ call.pre = "EXECUTE"
    /\ cu.opcode = 3
    /\ cu.signals.alu_src_a = 1 /\ cu.signals.alu_src_b = 2 /\ cu.signals.alu_op = 0
    /\ CU_signals(CU_decode_instruction(ControlUnit, cu.current_instruction)).alu_src_b = 2

(***************************************************************************)
(* Claims about the ALU (checked under SpecALU)                            *)
(***************************************************************************)
\* execute() has returned for operation op
AluExecuted(op) ==
    call.op = "execute" /\ call.err = "none" /\ unit.operation = op

\* bit 31 of a 32-bit word
Bit31(x) == x.hi >= 32768

\* (a + b) mod 2^32 and (a - b) mod 2^32 of 32-bit words, in 16-bit limbs
SumMod32(a, b) ==
    Word((a.hi + b.hi + ((a.lo + b.lo) \div H)) % H, (a.lo + b.lo) % H)
DiffMod32(a, b) ==
    Word((a.hi - b.hi + ((a.lo - b.lo) \div H)) % H, (a.lo - b.lo) % H)

\* C22: for all 32-bit a and b, ADD returns (a + b) mod 2^32 and SUB returns
\* (a - b) mod 2^32; after ADD overflow is set iff a and b have the same bit 31
\* and the result's bit 31 differs from it; after SUB iff a and b have
\* different bit 31 and the result's bit 31 differs from a's; after every
\* other operation overflow is false.
C22_AddSubOverflow ==
    LET a == unit.input_a
        b == unit.input_b
        r == unit.result
    IN /\ AluExecuted(0) =>
              /\ r = SumMod32(a, b) /\ call.ret = r
              /\ unit.overflow <=> (Bit31(a) = Bit31(b) /\ Bit31(r) # Bit31(a))
       /\ AluExecuted(1) =>
              /\ r = DiffMod32(a, b) /\ call.ret = r
              /\ unit.overflow <=> (Bit31(a) # Bit31(b) /\ Bit31(r) # Bit31(a))
       /\ (call.op = "execute" /\ call.err = "none" /\ unit.operation \notin {0, 1}) =>
              ~unit.overflow

\* 0x80000000 - 1 has overflowed to 0x7FFFFFFF
C22_Witness ==
    /\ AluExecuted(1)
    /\ unit.input_a = x80000000 /\ unit.input_b = Small(1)
    /\ unit.result = x7FFFFFFF /\ unit.overflow

\* an ADD has wrapped past 2^32 without a signed overflow, and an operation
\* other than ADD and SUB has cleared an overflow flag that was set
C22_WitnessWrap ==
    \/ /\ AluExecuted(0)
       /\ unit.input_a = xFFFFFFFF /\ unit.input_b = Small(1)
       /\ unit.result = Zero /\ ~unit.overflow
    \/ /\ call.op = "execute" /\ call.err = "none" /\ unit.operation = 2
       /\ call.pre.overflow /\ ~unit.overflow

\* bit i (0..31) of a 32-bit word
BitOf(x, i) == IF i >= 16 THEN (x.hi \div (2 ^ (i - 16))) % 2 ELSE (x.lo \div (2 ^ i)) % 2

\* C23: for every 32-bit a and every shift amount 0..31 (taken as b & 0x1F),
\* SRA returns the 32-bit arithmetic right shift of a: bit i of the result is
\* bit i + shift of a, and bit 31 of a where i + shift is above 31, so that bit
\* 31 is kept and copied into the vacated bits, and a shift by 0 returns a.
C23_ShiftRightArithmetic ==
    AluExecuted(7) =>
        LET a == unit.input_a
            shift == unit.input_b.lo % 32
            r == unit.result
        IN /\ r.ext = 0 /\ r.hi \in 0 .. H - 1 /\ r.lo \in 0 .. H - 1
           /\ call.ret = r
           /\ \A i \in 0 .. 31 :
                  BitOf(r, i) = BitOf(a, IF i + shift <= 31 THEN i + shift ELSE 31)
           /\ shift = 0 => r = a

\* 0xA5A55A5A shifted by 20 is 0xFFFFFA5A, and a shift by 0 of a negative word
\* has returned it
C23_Witness ==
    /\ AluExecuted(7)
    /\ \/ /\ unit.input_a = Word(42405, 23130) /\ unit.input_b = Small(20)
          /\ unit.result = Word(65535, 64090)
       \/ /\ unit.input_a = x80000000 /\ unit.input_b = Zero
          /\ unit.result = x80000000

\* C24: execute with an operation code outside 0..8 fails with an
\* invalid-operation error (ValueError) and leaves the ALU's result and its
\* zero, negative and overflow flags as they were before the call; with a code
\* in 0..8 it returns.
C24_InvalidOperation ==
    call.op = "execute" =>
        /\ call.pre.operation \notin 0 .. 8 =>
               /\ call.err = "ValueError"
               /\ unit.result = call.pre.result
               /\ <<unit.zero, unit.negative, unit.overflow>> =
                      <<call.pre.zero, call.pre.negative, call.pre.overflow>>
               /\ unit = call.pre
        /\ call.pre.operation \in 0 .. 8 => call.err = "none"

\* operation 9 was rejected by an ALU that held a non-zero result and a set
\* overflow flag
C24_Witness ==
    /\ call.op = "execute" /\ call.err = "ValueError"
    /\ unit.operation = 9
    /\ unit.result # Zero /\ unit.negative /\ unit.overflow

(***************************************************************************)
(* Claims about the Memory (checked under SpecMem)                         *)
(***************************************************************************)
\* the word index address >> 2 lies outside 0 .. size - 1
OutOfRange(m, address) == ~InMemory(m, Shr(address, 2))

\* C25: Memory.read and Memory.write with an address whose word index
\* (address >> 2) lies outside 0 .. size - 1 report an out-of-range error
\* (ValueError) to the caller, return no value, and leave the memory contents
\* unchanged.
C25_OutOfRangeAccess ==
    (call.op \in {"read", "write"} /\ OutOfRange(call.pre, call.args[1])) =>
        /\ call.err = "ValueError"
        /\ call.ret = None
        /\ unit.data = call.pre.data

\* some word of the program, stored from start_address on, falls outside the
\* memory
DoesNotFit(m, program, start_address) ==
    \E i \in 1 .. Len(program) :
        ~InMemory(m, Add(Shr(start_address, 2), Small(i - 1)))

\* C29: Memory.load_program with a program that does not fit entirely inside
\* the memory from the start address fails with an out-of-range error
\* (ValueError) and writes none of the program's words: the memory contents
\* equal those before the call.
C29_LoadProgramAllOrNothing ==
    (call.op = "load_program" /\ DoesNotFit(call.pre, call.args[1], call.args[2])) =>
        /\ call.err = "ValueError"
        /\ unit.data = call.pre.data

(***************************************************************************)
(* Claims about the RegisterFile (checked under SpecRF)                    *)
(***************************************************************************)
\* C26: RegisterFile.read and RegisterFile.write with a register index outside
\* 0 .. 31 report an out-of-range error (ValueError) to the caller rather than
\* being silently ignored, and leave every register unchanged.
C26_RegisterIndexOutOfRange ==
    (call.op \in {"read", "write"} /\ call.args[1] \notin 0 .. NumRegisters - 1) =>
        /\ call.err = "ValueError"
        /\ unit.registers = call.pre.registers

(***************************************************************************)
(* Claims about the Multiplexer (checked under SpecMux)                    *)
(***************************************************************************)
\* C27: set_select with an index outside 0 .. capacity - 1 and set_inputs with
\* more inputs than capacity fail at the call (ValueError) and leave select
\* and all inputs unchanged; consequently select is always a valid index and
\* get_output always returns inputs[select].
C27_MultiplexerBounds ==
    LET capacity == Cardinality(DOMAIN unit.inputs)
    IN /\ (call.op = "set_select" /\ call.args[1] \notin 0 .. capacity - 1) =>
              call.err = "ValueError" /\ unit = call.pre
       /\ (call.op = "set_inputs" /\ Len(call.args[1]) > capacity) =>
              call.err = "ValueError" /\ unit = call.pre
       /\ unit.select \in 0 .. capacity - 1
       /\ call.op = "get_output" =>
              /\ call.err = "none"
              /\ call.ret = unit.inputs[unit.select]
              /\ unit = call.pre

\* a multiplexer of two inputs with its second input selected has rejected
\* select 2, and one has rejected three inputs over the two it held
C27_Witness ==
    /\ Cardinality(DOMAIN unit.inputs) = 2
    /\ unit.select = 1 /\ unit.inputs[1] = Small(2)
    /\ call.err = "ValueError"
    /\ \/ call.op = "set_select" /\ call.args = <<2>>
       \/ call.op = "set_inputs" /\ Len(call.args[1]) = 3

(***************************************************************************)
(* Claims about unrecognized opcodes (checked under SpecCU)                *)
(***************************************************************************)
\* the opcodes the control unit names: R-type, lw, sw, beq, bne, j, jal, HALT,
\* addi, andi, ori, xori, slti
RecognizedOpcodes == {0, 35, 43, 4, 5, 2, 3, 63, 8, 12, 13, 14, 10}

\* C28: classifying an instruction whose opcode is not one of the recognized
\* opcodes is reported to the caller as a decode error, and no control vector
\* that asserts reg_write, mem_write or pc_write is produced for it.
C28_UnrecognizedOpcode ==
    (/\ mode = "single"
     /\ call.op = "generate_control_signals"
     /\ cu.opcode \notin RecognizedOpcodes) =>
        /\ call.err # "none"
        /\ ~cu.signals.reg_write /\ ~cu.signals.mem_write /\ ~cu.signals.pc_write

(***************************************************************************)
(* Claims about execute_instruction (checked under SpecInstr)              *)
(***************************************************************************)
\* the vector the single-cycle control unit generates for a HALT instruction
HaltVector ==
    CU_generate_control_signals(CU_decode_instruction(ControlUnit, EncI(63, 0, 0, 0))).signals

\* the HALT vector is the one applied to datapath d (applying it again changes
\* nothing) and neither write gate of the datapath is set
HaltApplied(d) ==
    /\ set_control_signals(d, HaltVector) = Ok(d, None)
    /\ ~d.mem_write /\ ~d.reg_write

\* C30: with the control vector of a HALT instruction applied (pc_write false,
\* no memory or register write asserted), execute_instruction leaves PC, the
\* register file and the memory contents unchanged, so that the next step
\* fetches from the same PC.
C30_HaltHolds ==
    (call.op = "execute_instruction" /\ HaltApplied(call.pre)) =>
        /\ ~HaltVector.pc_write /\ ~HaltVector.mem_write /\ ~HaltVector.reg_write
        /\ dp.pc = call.pre.pc
        /\ dp.register_file = call.pre.register_file
        /\ dp.memory.data = call.pre.memory.data

\* an instruction executed under the HALT vector with PC at 4, after an
\* earlier instruction had advanced PC
C30_Witness ==
    /\ call.op = "execute_instruction" /\ call.err = "none"
    /\ HaltApplied(call.pre)
    /\ Reg_read(call.pre.pc) = Small(4)
    /\ Reg_read(dp.pc) = Small(4)

(***************************************************************************)
(* Claims about the program counter, the gates and the ALU selection of    *)
(* a single-cycle step                                                     *)
(***************************************************************************)
\* C34: for an R_TYPE, I_TYPE, LOAD or STORE instruction (control vector with
\* pc_write asserted and pc_source = 0), one execute_instruction call leaves
\* PC equal to the PC before the call plus 4, whatever the ALU result is:
\* the first instruction executed from PC 0 leaves PC = 4.
C34_SequentialPC ==
    (/\ Executed(1) /\ call.op = "do_step" /\ call.pre = 0
     /\ get_instruction_type(cu) \in {"R_TYPE", "I_TYPE", "LOAD", "STORE"}
     /\ cu.signals.pc_write /\ cu.signals.pc_source = 0) =>
        Reg_read(dp.pc) = Small(4)

\* C35: after set_control_signals(s) the gates consulted by the datapath
\* phases equal the vector's fields: ir_write and pc_write for
\* fetch_instruction, mem_read and mem_write for memory_access, reg_write
\* for write_back.
C35_GatesFollowVector ==
    (call.op = "set_control_signals" /\ call.err = "none") =>
        LET s == call.args[1]
        IN /\ dp.ir_write = s.ir_write
           /\ dp.pc_write = s.pc_write
           /\ dp.mem_read = s.mem_read
           /\ dp.mem_write = s.mem_write
           /\ dp.reg_write = s.reg_write

\* C36: in execute_instruction the ALU operation performed in the execute
\* phase is the alu_op applied by the preceding set_control_signals; the
\* PC+4 computation of fetch_instruction leaves the selection unchanged, so
\* that after a single-cycle step the ALU still holds the vector's alu_op.
C36_FetchKeepsAluOperation ==
    (Executed(1) /\ call.op = "do_step") =>
        dp.alu.operation = cu.signals.alu_op

(***************************************************************************)
(* Claims about the pairing of control unit and datapath in a simulator    *)
(* step (checked under Spec)                                               *)
(***************************************************************************)
\* C37: in multi-cycle mode each simulator step executes on the datapath the
\* phase whose control signals the control unit generated in that same step
\* (the state the FSM was in when the step began), and the first phase
\* executed after construction is FETCH.
C37_StepRunsGeneratedPhase ==
    (mode = "multi" /\ call.op = "do_step") =>
        /\ call.ret = call.pre
        /\ dp.cycle_count = 1 => call.ret = "FETCH"

\* C38: in multi-cycle mode, whenever the FSM is in EXECUTE, MEMORY or
\* WRITEBACK, the class the control unit uses is the class of the word latched
\* in IR by the preceding FETCH: with lw $1, lw $2 first in memory, once a
\* FETCH phase has run IR holds one of the two lw words and the class is LOAD.
C38_ClassOfLatchedWord ==
    (/\ mode = "multi" /\ call.op \in {"do_step", "do_run"} /\ call.err = "none"
     /\ Loaded(dp, AddProgram) /\ dp.cycle_count >= 4
     /\ cu.state \in {"EXECUTE", "MEMORY", "WRITEBACK"}) =>
        /\ Reg_read(dp.ir) \in {AddProgram[1], AddProgram[2]}
        /\ cu.current_instruction = Reg_read(dp.ir)
        /\ get_instruction_type(cu) = "LOAD"

\* C39: in single-cycle mode the control vector applied while an instruction
\* executes in a step is the one generated from that same instruction word,
\* the word at the PC fetched in that step, not from the word left in IR by
\* an earlier step.
C39_VectorOfFetchedWord ==
    (Executed(1) /\ call.op = "do_step") =>
        /\ cu.current_instruction = call.ret
        /\ cu.signals =
               CU_generate_control_signals(
                   CU_decode_instruction(cu, call.ret)).signals

(***************************************************************************)
(* Claims about the write enables of the multi-cycle vectors (SpecCU)      *)
(***************************************************************************)
\* C40: in every vector generated by the MultiCycleControlUnit, for any
\* instruction word and any FSM state, reg_write is asserted only in
\* WRITEBACK, mem_write only in MEMORY, and ir_write only in FETCH.
C40_WriteEnablesByPhase ==
    \A S \in States \cup {"HALT"} :
        (/\ mode = "multi"
         /\ \/ call.op = "generate_control_signals" /\ cu.state = S
            \/ call.op = "step" /\ call.pre = S) =>
            /\ cu.signals.reg_write => S = "WRITEBACK"
            /\ cu.signals.mem_write => S = "MEMORY"
            /\ cu.signals.ir_write => S = "FETCH"

\* a LOAD's MEMORY vector has been generated: it reads memory and asserts
\* none of the three write enables
C40_Witness ==
    /\ mode = "multi" /\ call.op = "step" /\ call.pre = "MEMORY"
    /\ get_instruction_type(cu) = "LOAD"
    /\ cu.signals.mem_read
    /\ ~cu.signals.reg_write /\ ~cu.signals.mem_write /\ ~cu.signals.ir_write

\* a STORE's MEMORY vector and a LOAD's WRITEBACK vector have been generated
C40_WitnessWrites ==
    /\ mode = "multi" /\ call.op = "generate_control_signals"
    /\ \/ cu.state = "MEMORY" /\ cu.signals.mem_write
       \/ cu.state = "WRITEBACK" /\ cu.signals.reg_write

(***************************************************************************)
(* cpu_simulator/instruction.py: OpCode, Instruction, InstructionDecoder   *)
(***************************************************************************)
xFF == Word(0, 255)
xFFFFFF == Word(255, 65535)

\* class OpCode(Enum): the value of each member
OpCode ==
    [ADD |-> 1, SUB |-> 2, MUL |-> 3, DIV |-> 4,
     AND |-> 17, OR |-> 18, XOR |-> 19, NOT |-> 20,
     LOAD |-> 33, STORE |-> 34, MOVE |-> 35,
     JUMP |-> 49, JUMP_EQ |-> 50, JUMP_NEQ |-> 51, JUMP_GT |-> 52,
     JUMP_LT |-> 53, HALT |-> 255]

OpCodeNames == DOMAIN OpCode

\* the opcode lists the decoder and the encoder branch on
ThreeRegisterOps == {"ADD", "SUB", "MUL", "DIV", "AND", "OR", "XOR"}
ConditionalJumps == {"JUMP_EQ", "JUMP_NEQ", "JUMP_GT", "JUMP_LT"}

\* Instruction(opcode, operands); operands are Python integers below 2^31
Instruction(opcode, operands) == [opcode |-> opcode, operands |-> operands]

\* (binary_instruction >> shift) & mask, as an operand
Field(binary_instruction, shift, mask) ==
    ToNat(BitAnd(Shr(binary_instruction, shift), mask))

\* a decoder whose LOAD/STORE address field is one byte wide
decode_address_byte(binary_instruction) == Field(binary_instruction, 0, xFF)

\* InstructionDecoder.decode: address = binary_instruction & 0xFFFF
decode_address(binary_instruction) == Field(binary_instruction, 0, xFFFF)

\* InstructionDecoder.decode(binary_instruction): the Instruction, or ValueError
InstructionDecoder_decode(binary_instruction) ==
    LET b == binary_instruction
        opcode_value == Field(b, 24, xFF)
    IN  IF \A n \in OpCodeNames : OpCode[n] # opcode_value
        THEN Raise(None, "ValueError")
        ELSE LET opcode == CHOOSE n \in OpCodeNames : OpCode[n] = opcode_value
                 operands ==
                     IF opcode \in ThreeRegisterOps
                     THEN <<Field(b, 16, xFF), Field(b, 8, xFF), Field(b, 0, xFF)>>
                     ELSE IF opcode = "NOT"
                     THEN <<Field(b, 16, xFF), Field(b, 8, xFF)>>
                     ELSE IF opcode \in {"LOAD", "STORE"}
                     THEN <<Field(b, 16, xFF), decode_address(b)>>
                     ELSE IF opcode = "MOVE"
                     THEN <<Field(b, 16, xFF), Field(b, 8, xFF)>>
                     ELSE IF opcode = "JUMP"
                     THEN <<Field(b, 0, xFFFFFF)>>
                     ELSE IF opcode \in ConditionalJumps
                     THEN <<Field(b, 16, xFF), Field(b, 8, xFF), Field(b, 0, xFF)>>
                     ELSE <<>>
             IN Ok(None, Instruction(opcode, operands))

\* the operand lengths the encoder's branch for an opcode indexes
EncodedOperands(opcode) ==
    IF opcode \in ThreeRegisterOps \cup ConditionalJumps THEN 3
    ELSE IF opcode \in {"NOT", "LOAD", "STORE", "MOVE"} THEN 2
    ELSE IF opcode = "JUMP" THEN 1
    ELSE 0

\* InstructionDecoder.encode(instruction): the 32-bit word, or IndexError
\* when the branch indexes an operand the list does not have
InstructionDecoder_encode(instruction) ==
    LET opcode == instruction.opcode
        o == instruction.operands
        b0 == Shl(Small(OpCode[opcode]), 24)
        part(k, mask, shift) == Shl(BitAnd(Small(o[k]), mask), shift)
    IN  IF Len(o) < EncodedOperands(opcode) THEN Raise(None, "IndexError")
        ELSE IF opcode \in ThreeRegisterOps \cup ConditionalJumps
        THEN Ok(None, BitOr(BitOr(BitOr(b0, part(1, xFF, 16)), part(2, xFF, 8)),
                            part(3, xFF, 0)))
        ELSE IF opcode \in {"NOT", "MOVE"}
        THEN Ok(None, BitOr(BitOr(b0, part(1, xFF, 16)), part(2, xFF, 8)))
        ELSE IF opcode \in {"LOAD", "STORE"}
        THEN Ok(None, BitOr(BitOr(b0, part(1, xFF, 16)), part(2, xFFFF, 0)))
        ELSE IF opcode = "JUMP"
        THEN Ok(None, BitOr(b0, part(1, xFFFFFF, 0)))
        ELSE Ok(None, b0)

(***************************************************************************)
(* SpecCodec: the instruction encoder and decoder on their own.  An        *)
(* instruction of any opcode is encoded and the word decoded again; words  *)
(* that no encoding produces are decoded too.                              *)
(***************************************************************************)
\* operand values at and just beyond the widths of the fields
RegisterOperands == {0, 3, 255, 256}
ByteAddresses == {0, 16, 255, 256}
WordAddresses == {0, 100, 65535, 65536}
JumpAddresses == {0, 16, 16777215, 16777216}

\* the operand lists drawn for an opcode: the layout its branch encodes, and
\* the empty list
OperandLists(opcode) ==
    IF opcode \in ThreeRegisterOps
    THEN {<<a, b, c>> : a \in RegisterOperands, b \in RegisterOperands,
                        c \in RegisterOperands} \cup {<<>>}
    ELSE IF opcode \in ConditionalJumps
    THEN {<<a, b, c>> : a \in RegisterOperands, b \in RegisterOperands,
                        c \in ByteAddresses} \cup {<<>>}
    ELSE IF opcode \in {"NOT", "MOVE"}
    THEN {<<a, b>> : a \in RegisterOperands, b \in RegisterOperands} \cup {<<>>}
    ELSE IF opcode \in {"LOAD", "STORE"}
    THEN {<<a, b>> : a \in RegisterOperands, b \in WordAddresses} \cup {<<>>}
    ELSE IF opcode = "JUMP"
    THEN {<<a>> : a \in JumpAddresses} \cup {<<>>}
    ELSE {<<>>}

\* words decoded without having been encoded: no opcode, an opcode that is
\* no member, and members with bits set in fields their layout leaves out
CodecWords ==
    {Zero, Word(13824, 0), Word(5123, 1287), Word(65535, 65535),
     Word(12544, 100), Word(8961, 515)}

InitCodec ==
    /\ mode = "none"
    /\ cu = None
    /\ dp = None
    /\ history = 0
    /\ trace = <<>>
    /\ \E opcode \in OpCodeNames :
          \E operands \in OperandLists(opcode) :
              unit = [instruction |-> Instruction(opcode, operands),
                      word |-> Zero, encoded |-> FALSE]
    /\ call = Call("init", <<>>, None, "none", None)

\* word = InstructionDecoder.encode(instruction)
CodecEncode ==
    /\ call.op = "init"
    /\ \E r \in {InstructionDecoder_encode(unit.instruction)} :
          /\ unit' = IF r.err = "none"
                     THEN [unit EXCEPT !.word = r.ret, !.encoded = TRUE]
                     ELSE unit
          /\ call' = Call("encode", <<unit.instruction>>, unit, r.err, r.ret)
    /\ UNCHANGED <<mode, cu, dp, history, trace>>

\* a word from elsewhere
CodecTakeWord ==
    /\ call.op = "init"
    /\ \E w \in CodecWords :
          /\ unit' = [unit EXCEPT !.word = w]
          /\ call' = Call("word", <<w>>, unit, "none", None)
    /\ UNCHANGED <<mode, cu, dp, history, trace>>

\* InstructionDecoder.decode(word)
CodecDecode ==
    /\ call.op \in {"encode", "word"} /\ call.err = "none"
    /\ \E r \in {InstructionDecoder_decode(unit.word)} :
          call' = Call("decode", <<unit.word>>, unit, r.err, r.ret)
    /\ UNCHANGED <<unit, mode, cu, dp, history, trace>>

NextCodec == CodecEncode \/ CodecTakeWord \/ CodecDecode

SpecCodec == InitCodec /\ [][NextCodec]_vars

(***************************************************************************)
(* Claims about the instruction codec (checked under SpecCodec)            *)
(***************************************************************************)
\* the width in bits of operand k of an opcode's layout
FieldWidth(opcode, k) ==
    IF opcode = "JUMP" THEN 24
    ELSE IF opcode \in {"LOAD", "STORE"} /\ k = 2 THEN 16
    ELSE 8

\* the instruction has the operands of its opcode's layout and each fits
\* its field
FitsFields(i) ==
    /\ Len(i.operands) = EncodedOperands(i.opcode)
    /\ \A k \in 1 .. Len(i.operands) :
           i.operands[k] \in 0 .. (2 ^ FieldWidth(i.opcode, k) - 1)

\* C31: for every Instruction whose operands fit their encoded field widths,
\* decode(encode(i)) has the same opcode and the same operand list as i, for
\* every opcode of the instruction set.
C31_EncodeDecodeRoundTrip ==
    (call.op = "decode" /\ call.pre.encoded /\ FitsFields(call.pre.instruction)) =>
        /\ call.err = "none"
        /\ call.ret.opcode = call.pre.instruction.opcode
        /\ call.ret.operands = call.pre.instruction.operands

\* a STORE with the widest register and address its fields hold has made
\* the round trip
C31_Witness ==
    /\ call.op = "decode" /\ call.pre.encoded
    /\ call.pre.instruction = Instruction("STORE", <<255, 65535>>)
    /\ call.args[1] = Word(8959, 65535)
    /\ call.err = "none"

\* an operand one beyond its field does not come back
C31_WitnessTooWide ==
    /\ call.op = "decode" /\ call.pre.encoded
    /\ call.pre.instruction = Instruction("JUMP", <<16777216>>)
    /\ call.ret = Instruction("JUMP", <<0>>)

(***************************************************************************)
(* cpu_simulator/memory.py: Memory.  The byte list is a function from the  *)
(* addresses that hold a non-zero byte; every other byte is 0.             *)
(***************************************************************************)
CpuMemorySize == 65536

\* Memory(): size bytes, all 0
CpuMemory == [size |-> CpuMemorySize, data |-> <<>>]

\* self.data[address]
ByteAt(m, address) == IF address \in DOMAIN m.data THEN m.data[address] ELSE 0

\* self.data[address] = byte
SetByte(m, address, byte) ==
    [m EXCEPT !.data =
        [a \in (IF byte = 0 THEN DOMAIN m.data \ {address}
                ELSE DOMAIN m.data \cup {address}) |->
            IF a = address THEN byte ELSE m.data[a]]]

\* the byte of address + i that read ORs into the word: 0 beyond the end
ReadByte(m, address, i) ==
    IF address + i < m.size THEN AndN(ByteAt(m, address + i), 255) ELSE 0

\* Memory.read(address): the little-endian word of four bytes, or ValueError
CpuMem_read(m, address) ==
    IF 0 <= address /\ address < m.size
    THEN Ok(m, Word(ReadByte(m, address, 2) + 256 * ReadByte(m, address, 3),
                    ReadByte(m, address, 0) + 256 * ReadByte(m, address, 1)))
    ELSE Raise(m, "ValueError")

\* (value >> (8 * i)) & 0xFF
ByteOf(value, i) == Field(value, 8 * i, xFF)

\* the loop of Memory.write from byte i on
RECURSIVE WriteBytes(_, _, _, _)
WriteBytes(m, address, value, i) ==
    IF i = 4 THEN m
    ELSE IF address + i < m.size
    THEN WriteBytes(SetByte(m, address + i, ByteOf(value, i)), address, value, i + 1)
    ELSE WriteBytes(m, address, value, i + 1)

\* Memory.write(address, value)
CpuMem_write(m, address, value) ==
    IF 0 <= address /\ address < m.size
    THEN Ok(WriteBytes(m, address, value, 0), None)
    ELSE Raise(m, "ValueError")

\* Memory.load_program(program, start_address): one write per instruction,
\* four bytes apart
RECURSIVE CpuMem_load_program(_, _, _)
CpuMem_load_program(m, program, start_address) ==
    IF program = <<>> THEN Ok(m, None)
    ELSE Then(CpuMem_write(m, start_address, Head(program)),
              LAMBDA m1 : CpuMem_load_program(m1, Tail(program), start_address + 4))

(***************************************************************************)
(* cpu_simulator/register.py: RegisterFile.  Every value the CPU writes to *)
(* a register is a word read from memory, an ALU result masked to 32 bits  *)
(* or the AND, OR, XOR of two registers, so registers hold 0 .. 2^32 - 1.  *)
(***************************************************************************)
NumCpuRegisters == 16

\* RegisterFile()
CpuRegisterFile ==
    [registers |-> [n \in 0 .. NumCpuRegisters - 1 |-> Zero],
     pc |-> 0,
     sr |-> [Z |-> FALSE, N |-> FALSE, C |-> FALSE, V |-> FALSE]]

\* RegisterFile.read_register(reg_num)
read_register(rf, reg_num) ==
    IF 0 <= reg_num /\ reg_num < NumCpuRegisters
    THEN Ok(rf, rf.registers[reg_num])
    ELSE Raise(rf, "ValueError")

\* RegisterFile.write_register(reg_num, value)
write_register(rf, reg_num, value) ==
    IF 0 <= reg_num /\ reg_num < NumCpuRegisters
    THEN Ok([rf EXCEPT !.registers[reg_num] = value], None)
    ELSE Raise(rf, "ValueError")

\* RegisterFile.write_pc(value), RegisterFile.increment_pc(amount)
write_pc(rf, value) == [rf EXCEPT !.pc = value]
increment_pc(rf, amount) == [rf EXCEPT !.pc = @ + amount]

\* RegisterFile.update_flags(result, carry, overflow)
update_flags(rf, result, carry, overflow) ==
    [rf EXCEPT !.sr = [Z |-> result = Zero, N |-> Less(result, Zero),
                       C |-> carry, V |-> overflow]]

\* RegisterFile.reset
CpuRF_reset(rf) == CpuRegisterFile

(***************************************************************************)
(* cpu_simulator/cpu.py: ALU                                               *)
(***************************************************************************)
\* byte i of a word
Limb(a, i) == Field(a, 8 * i, xFF)

\* the sum of the byte products Limb(a, i) * Limb(b, k - i) of column k
RECURSIVE Column(_, _, _, _)
Column(a, b, k, i) ==
    IF i > 3 THEN 0
    ELSE (IF k - i \in 0 .. 3 THEN Limb(a, i) * Limb(b, k - i) ELSE 0)
             + Column(a, b, k, i + 1)

\* column k of a * b with the carry of the columns below it
RECURSIVE Carried(_, _, _)
Carried(a, b, k) ==
    IF k < 0 THEN 0
    ELSE Bind(Carried(a, b, k - 1), LAMBDA below :
         Column(a, b, k, 0) + (below \div 256))

\* a * b for 0 <= a, b < 2^32: the low 32 bits, and ext = 1 iff the product
\* exceeds 0xFFFFFFFF
Times(a, b) ==
    PyInt(IF \E k \in 4 .. 7 : Carried(a, b, k) # 0 THEN 1 ELSE 0,
          (Carried(a, b, 2) % 256) + 256 * (Carried(a, b, 3) % 256),
          (Carried(a, b, 0) % 256) + 256 * (Carried(a, b, 1) % 256))

\* b * q for 0 <= q <= 256
SmallTimes(b, q) ==
    PyInt(b.ext * q + ((b.hi * q + ((b.lo * q) \div H)) \div H),
          (b.hi * q + ((b.lo * q) \div H)) % H,
          (b.lo * q) % H)

\* a // b for 0 <= a < 2^32, 0 < b: long division in base 256 from byte i
\* of a down, with remainder rem and quotient q so far
RECURSIVE FloorDiv(_, _, _, _, _)
FloorDiv(a, b, i, rem, q) ==
    IF i < 0 THEN q
    ELSE Bind(Add(Shl(rem, 8), Small(Limb(a, i))), LAMBDA cur :
         Bind(CHOOSE d \in 0 .. 255 :
                  /\ ~Less(cur, SmallTimes(b, d))
                  /\ Less(cur, SmallTimes(b, d + 1)), LAMBDA d :
         Bind(Sub(cur, SmallTimes(b, d)), LAMBDA rem1 :
         Bind(Add(Shl(q, 8), Small(d)), LAMBDA q1 :
         FloorDiv(a, b, i - 1, rem1, q1)))))

\* the result of an ALU opcode on two register values, before flags and mask
CpuALU_result(opcode, a, b) ==
    IF opcode = "ADD" THEN Add(a, b)
    ELSE IF opcode = "SUB" THEN Sub(a, b)
    ELSE IF opcode = "MUL" THEN Times(a, b)
    ELSE IF opcode = "DIV" THEN FloorDiv(a, b, 3, Zero, Zero)
    ELSE IF opcode = "AND" THEN BitAnd(a, b)
    ELSE IF opcode = "OR" THEN BitOr(a, b)
    ELSE IF opcode = "XOR" THEN BitXor(a, b)
    ELSE Sub(Sub(Zero, a), Small(1))

\* the carry and overflow arguments of update_flags
CpuALU_carry(opcode, a, b, result) ==
    IF opcode = "ADD" THEN Less(xFFFFFFFF, result)
    ELSE IF opcode = "SUB" THEN ~Less(a, b)
    ELSE FALSE

CpuALU_overflow(opcode, a, b, result) ==
    IF opcode = "ADD"
    THEN \/ Less(Zero, a) /\ Less(Zero, b) /\ Less(result, Zero)
         \/ Less(a, Zero) /\ Less(b, Zero) /\ Less(Zero, result)
    ELSE IF opcode = "SUB"
    THEN \/ Less(Zero, a) /\ Less(b, Zero) /\ Less(result, Zero)
         \/ Less(a, Zero) /\ Less(Zero, b) /\ Less(Zero, result)
    ELSE IF opcode = "MUL"
    THEN Less(xFFFFFFFF, result) \/ Less(result, PyInt(-1, 32768, 0))
    ELSE FALSE

\* ALU.execute(opcode, operands) on register file rf: the flags are updated
\* from the unmasked result; AND, OR and XOR return it unmasked
CpuALU_execute(rf, opcode, operands) ==
    IF opcode \in ThreeRegisterOps THEN
        Bind(read_register(rf, operands[2]), LAMBDA r1 :
        IF r1.err # "none" THEN r1 ELSE
        Bind(read_register(rf, operands[3]), LAMBDA r2 :
        IF r2.err # "none" THEN r2 ELSE
        IF opcode = "DIV" /\ r2.ret = Zero THEN Raise(rf, "ZeroDivisionError") ELSE
        Bind(CpuALU_result(opcode, r1.ret, r2.ret), LAMBDA result :
        Ok(update_flags(rf, result,
                        CpuALU_carry(opcode, r1.ret, r2.ret, result),
                        CpuALU_overflow(opcode, r1.ret, r2.ret, result)),
           IF opcode \in {"AND", "OR", "XOR"} THEN result
           ELSE BitAnd(result, xFFFFFFFF)))))
    ELSE IF opcode = "NOT" THEN
        Bind(read_register(rf, operands[2]), LAMBDA r1 :
        IF r1.err # "none" THEN r1 ELSE
        Bind(CpuALU_result(opcode, r1.ret, Zero), LAMBDA result :
        Ok(update_flags(rf, result, FALSE, FALSE), BitAnd(result, xFFFFFFFF))))
    ELSE Raise(rf, "ValueError")

(***************************************************************************)
(* cpu_simulator/cpu.py: CPU                                               *)
(***************************************************************************)
\* CPU(memory, register_file)
CPU(memory, register_file) ==
    [memory |-> memory, register_file |-> register_file,
     running |-> FALSE, breakpoints |-> {}]

\* the outcome r of a register-file call, as an outcome on the CPU c
OnRegisterFile(c, r) == R([c EXCEPT !.register_file = r.obj], r.err, r.ret)

\* CPU.fetch: the word at PC, then PC += 4
CPU_fetch(c) ==
    Bind(CpuMem_read(c.memory, c.register_file.pc), LAMBDA r :
    IF r.err # "none" THEN Raise(c, r.err)
    ELSE Ok([c EXCEPT !.register_file = increment_pc(@, 4)], r.ret))

\* CPU.decode(binary_instruction)
CPU_decode(c, binary_instruction) ==
    Bind(InstructionDecoder_decode(binary_instruction), LAMBDA r :
    R(c, r.err, r.ret))

\* a conditional jump that is never taken
jump_condition_never(opcode, reg1_val, reg2_val) == FALSE

\* the comparison of a conditional jump
jump_condition(opcode, reg1_val, reg2_val) ==
    IF opcode = "JUMP_EQ" THEN reg1_val = reg2_val
    ELSE IF opcode = "JUMP_NEQ" THEN reg1_val # reg2_val
    ELSE IF opcode = "JUMP_GT" THEN Less(reg2_val, reg1_val)
    ELSE Less(reg1_val, reg2_val)

\* CPU.execute, LOAD: value = self.memory.read(address)
load_value(c, address) == CpuMem_read(c.memory, address)

\* CPU.execute(instruction)
CPU_execute(c, instruction) ==
    LET opcode == instruction.opcode
        operands == instruction.operands
        rf == c.register_file
    IN  IF opcode \in ThreeRegisterOps \cup {"NOT"} THEN
            Bind(CpuALU_execute(rf, opcode, operands), LAMBDA r :
            IF r.err # "none" THEN OnRegisterFile(c, r)
            ELSE OnRegisterFile(c, write_register(r.obj, operands[1], r.ret)))
        ELSE IF opcode = "LOAD" THEN
            Bind(load_value(c, operands[2]), LAMBDA r :
            IF r.err # "none" THEN Raise(c, r.err)
            ELSE OnRegisterFile(c, write_register(rf, operands[1], r.ret)))
        ELSE IF opcode = "STORE" THEN
            Bind(read_register(rf, operands[1]), LAMBDA r :
            IF r.err # "none" THEN Raise(c, r.err) ELSE
            Bind(CpuMem_write(c.memory, operands[2], r.ret), LAMBDA w :
            R([c EXCEPT !.memory = w.obj], w.err, None)))
        ELSE IF opcode = "MOVE" THEN
            Bind(read_register(rf, operands[2]), LAMBDA r :
            IF r.err # "none" THEN Raise(c, r.err)
            ELSE OnRegisterFile(c, write_register(rf, operands[1], r.ret)))
        ELSE IF opcode = "JUMP" THEN
            Ok([c EXCEPT !.register_file = write_pc(@, operands[1])], None)
        ELSE IF opcode \in ConditionalJumps THEN
            Bind(read_register(rf, operands[1]), LAMBDA r1 :
            IF r1.err # "none" THEN Raise(c, r1.err) ELSE
            Bind(read_register(rf, operands[2]), LAMBDA r2 :
            IF r2.err # "none" THEN Raise(c, r2.err) ELSE
            IF jump_condition(opcode, r1.ret, r2.ret)
            THEN Ok([c EXCEPT !.register_file = write_pc(@, operands[3])], None)
            ELSE Ok(c, None)))
        ELSE IF opcode = "HALT" THEN Ok([c EXCEPT !.running = FALSE], None)
        ELSE Raise(c, "ValueError")

\* CPU.step: None when stopped or at a breakpoint, else the instruction
\* fetched, decoded and executed
CPU_step(c) ==
    IF ~c.running THEN Ok(c, None)
    ELSE IF c.register_file.pc \in c.breakpoints
    THEN Ok([c EXCEPT !.running = FALSE], None)
    ELSE Bind(CPU_fetch(c), LAMBDA f :
         IF f.err # "none" THEN f ELSE
         Bind(CPU_decode(f.obj, f.ret), LAMBDA d :
         IF d.err # "none" THEN d ELSE
         Bind(CPU_execute(d.obj, d.ret), LAMBDA e :
         R(e.obj, e.err, IF e.err = "none" THEN d.ret ELSE None))))

\* the number of steps after which a run is taken not to return
MaxRunSteps == 12

\* the loop of CPU.run with instruction_count instructions counted and fuel
\* steps left
RECURSIVE RunLoop(_, _, _)
RunLoop(c, instruction_count, fuel) ==
    IF ~c.running THEN Ok(c, instruction_count)
    ELSE IF fuel = 0 THEN Raise(c, "unbounded")
    ELSE Bind(CPU_step(c), LAMBDA s :
         IF s.err # "none" THEN s
         ELSE RunLoop(s.obj,
                      IF c.register_file.pc \in c.breakpoints
                      THEN instruction_count ELSE instruction_count + 1,
                      fuel - 1))

\* CPU.run: the number of instructions executed
CPU_run(c) == RunLoop([c EXCEPT !.running = TRUE], 0, MaxRunSteps)

\* CPU.reset
CPU_reset(c) ==
    [c EXCEPT !.register_file = CpuRF_reset(@), !.running = FALSE]

(***************************************************************************)
(* SpecCPU: the standalone CPU on a program loaded at address 0, with two  *)
(* data words at addresses 100 and 104, driven as the tests and the        *)
(* command-line simulator drive it: running set, single steps, runs,       *)
(* resets and breakpoints.                                                 *)
(***************************************************************************)
\* test_cpu_execution's program
SumProgram ==
    <<Instruction("LOAD", <<1, 10>>), Instruction("LOAD", <<2, 20>>),
      Instruction("ADD", <<3, 1, 2>>), Instruction("STORE", <<3, 100>>),
      Instruction("HALT", <<>>)>>

\* test_jump_instructions' program
JumpProgram ==
    <<Instruction("LOAD", <<1, 5>>), Instruction("LOAD", <<2, 10>>),
      Instruction("JUMP_LT", <<1, 2, 16>>), Instruction("LOAD", <<3, 0>>),
      Instruction("LOAD", <<3, 1>>), Instruction("HALT", <<>>)>>

\* two data words compared by a conditional jump to address 20, over a
\* LOAD and a HALT
CompareProgram(jump) ==
    <<Instruction("LOAD", <<1, 100>>), Instruction("LOAD", <<2, 104>>),
      Instruction(jump, <<1, 2, 20>>), Instruction("LOAD", <<3, 100>>),
      Instruction("HALT", <<>>), Instruction("STORE", <<1, 108>>),
      Instruction("HALT", <<>>)>>

\* every ALU opcode and MOVE on the two data words, ending in a division
\* by register 0
ArithmeticProgram ==
    <<Instruction("LOAD", <<1, 100>>), Instruction("LOAD", <<2, 104>>),
      Instruction("SUB", <<3, 1, 2>>), Instruction("MUL", <<4, 3, 3>>),
      Instruction("DIV", <<5, 3, 2>>), Instruction("AND", <<6, 3, 1>>),
      Instruction("OR", <<7, 3, 1>>), Instruction("XOR", <<8, 3, 1>>),
      Instruction("NOT", <<9, 8>>), Instruction("MOVE", <<10, 9>>),
      Instruction("DIV", <<11, 1, 0>>)>>

\* a jump to itself, a register that does not exist, a program that runs
\* into the zero words behind it, and a load beyond the memory's last word
LoopProgram == <<Instruction("JUMP", <<0>>)>>
BadRegisterProgram == <<Instruction("ADD", <<16, 1, 2>>), Instruction("HALT", <<>>)>>
NoHaltProgram == <<Instruction("STORE", <<1, 65535>>), Instruction("LOAD", <<2, 65534>>)>>

CpuPrograms ==
    {SumProgram, JumpProgram, ArithmeticProgram, LoopProgram,
     BadRegisterProgram, NoHaltProgram}
        \cup {CompareProgram(jump) : jump \in ConditionalJumps}

\* the data words at addresses 100 and 104
CpuData == {<<5, 10>>, <<10, 5>>, <<7, 7>>}

\* breakpoint addresses
Breakpoints == {8, 16}

\* InstructionDecoder.encode of each instruction of a program
RECURSIVE EncodeProgram(_)
EncodeProgram(program) ==
    IF program = <<>> THEN <<>>
    ELSE <<InstructionDecoder_encode(Head(program)).ret>> \o EncodeProgram(Tail(program))

\* the memory with the data written and the program loaded at 0
LoadedMemory(program, data) ==
    Then(Then(CpuMem_write(CpuMemory, 100, Small(data[1])),
              LAMBDA m : CpuMem_write(m, 104, Small(data[2]))),
         LAMBDA m : CpuMem_load_program(m, EncodeProgram(program), 0)).obj

\* the CPU the tests' setUp builds, with the memory loaded
LoadedCPU(program, data) == CPU(LoadedMemory(program, data), CpuRegisterFile)

InitCPU ==
    /\ mode = "none"
    /\ cu = None
    /\ dp = None
    /\ history = 0
    /\ trace = <<>>
    /\ \E program \in CpuPrograms :
          \E data \in CpuData :
              /\ unit = LoadedCPU(program, data)
              /\ call = Call("load_program", <<program, data>>, unit, "none", None)

\* the outcome r of operation op on the CPU
CPUApply(op, args, r) ==
    /\ call.err = "none"
    /\ unit' = r.obj
    /\ call' = Call(op, args, unit, r.err, r.ret)
    /\ UNCHANGED <<mode, cu, dp, history, trace>>

\* cpu.running = True
CPUStart ==
    /\ ~unit.running
    /\ \E r \in {Ok([unit EXCEPT !.running = TRUE], None)} : CPUApply("start", <<>>, r)

\* cpu.step()
CPUStep == \E r \in {CPU_step(unit)} : CPUApply("step", <<>>, r)

\* cpu.run(), when it returns or raises
CPURun ==
    \E r \in {CPU_run(unit)} :
        /\ r.err # "unbounded"
        /\ CPUApply("run", <<>>, r)

\* cpu.reset()
CPUReset == \E r \in {Ok(CPU_reset(unit), None)} : CPUApply("reset", <<>>, r)

\* cpu.set_breakpoint(address)
CPUSetBreakpoint ==
    \E address \in Breakpoints :
        /\ address \notin unit.breakpoints
        /\ \E r \in {Ok([unit EXCEPT !.breakpoints = @ \cup {address}], None)} :
              CPUApply("set_breakpoint", <<address>>, r)

NextCPU == CPUStart \/ CPUStep \/ CPURun \/ CPUReset \/ CPUSetBreakpoint

SpecCPU == InitCPU /\ [][NextCPU]_vars

(***************************************************************************)
(* Claims about the standalone CPU (checked under SpecCPU)                 *)
(***************************************************************************)
\* register n of the CPU, and the word its memory holds at an address
CpuReg(n) == unit.register_file.registers[n]
CpuWord(address) == CpuMem_read(unit.memory, address).ret

\* C32: running a straight-line program of n instructions ending in HALT,
\* loaded at address 0, run() returns n and each LOAD Rd,v has left Rd
\* holding v, each ADD Rd,Rs,Rt has left Rd = Rs+Rt and each STORE Rs,a has
\* left memory.read(a) equal to Rs: LOAD R1,10; LOAD R2,20; ADD R3,R1,R2;
\* STORE R3,100; HALT gives count 5, R1 = 10, R2 = 20, R3 = 30 and
\* memory[100] = 30.
C32_RunSumProgram ==
    (/\ call.op = "run" /\ call.err = "none"
     /\ \E data \in CpuData : call.pre = LoadedCPU(SumProgram, data)) =>
        /\ call.ret = 5
        /\ CpuReg(1) = Small(10)
        /\ CpuReg(2) = Small(20)
        /\ CpuReg(3) = Small(30)
        /\ CpuWord(100) = Small(30)

\* a step that was not stopped before fetching
Stepped ==
    /\ call.op = "step" /\ call.err = "none"
    /\ call.pre.running
    /\ call.pre.register_file.pc \notin call.pre.breakpoints

\* C33: JUMP_LT r1,r2,addr sets PC to addr when the value of r1 is less than
\* the value of r2, so that the instructions between the jump and addr are
\* not executed and execution continues at addr; when r1 is not less than r2
\* execution falls through to the next instruction.
C33_JumpLessThan ==
    /\ (Stepped /\ call.ret.opcode = "JUMP_LT") =>
           LET before == call.pre.register_file
               o == call.ret.operands
           IN /\ call.ret = InstructionDecoder_decode(
                                CpuMem_read(call.pre.memory, before.pc).ret).ret
              /\ unit.register_file.pc =
                     (IF Less(before.registers[o[1]], before.registers[o[2]])
                      THEN o[3] ELSE before.pc + 4)
              /\ unit.register_file.registers = before.registers
              /\ unit.memory = call.pre.memory
    /\ \A data \in CpuData :
           (/\ call.op = "run" /\ call.err = "none"
            /\ call.pre = LoadedCPU(CompareProgram("JUMP_LT"), data)) =>
               /\ call.ret = 5
               /\ CpuReg(3) = (IF data[1] < data[2] THEN Zero ELSE Small(data[1]))
               /\ CpuWord(108) = (IF data[1] < data[2] THEN Small(data[1]) ELSE Zero)

\* a JUMP_LT whose first register is the smaller has jumped over the LOAD
\* and the HALT behind it
C33_Witness ==
    /\ Stepped /\ call.ret = Instruction("JUMP_LT", <<1, 2, 20>>)
    /\ call.pre.register_file.registers[1] = Small(5)
    /\ call.pre.register_file.registers[2] = Small(10)
    /\ call.pre.register_file.pc = 8
    /\ unit.register_file.pc = 20

\* a JUMP_LT whose registers are equal, or whose first is the larger, has
\* fallen through
C33_WitnessFallsThrough ==
    /\ Stepped /\ call.ret.opcode = "JUMP_LT"
    /\ ~Less(call.pre.register_file.registers[1], call.pre.register_file.registers[2])
    /\ unit.register_file.pc = call.pre.register_file.pc + 4

====
